---- MODULE Spec2Model ----
(***************************************************************************)
(* AllDownloader: the media resolution engine (platform detector, the      *)
(* per-platform resolvers of the downloadService drafts, the serverless    *)
(* and ytdl backends) and the App component that drives it.                *)
(***************************************************************************)
EXTENDS Integers, Sequences, FiniteSets, TLC

\* JavaScript undefined / null.
NoVal == "undefined"
\* null where an object is expected (a parsed document, a MediaInfo).
Null == [null |-> TRUE]

(***************************************************************************)
(* Inputs: the URL strings a user can submit.  Regular expressions are     *)
(* evaluated on these strings; each table below lists the strings of Urls  *)
(* on which RegExp.test / String.match succeeds.                           *)
(***************************************************************************)
UrlWatch == "https://www.youtube.com/watch?v=abc12345678"
UrlShort == "https://youtu.be/abc12345678"
UrlShorts == "https://www.youtube.com/shorts/abc12345678"
UrlChannel == "https://www.youtube.com/@channel"
UrlLinkedIn == "https://www.linkedin.com/posts/x"
UrlExample == "https://example.com/foo"
UrlTikTok == "https://www.tiktok.com/@user/video/123"
UrlTwitter == "https://x.com/user/status/123"
UrlFacebook == "https://www.facebook.com/watch?v=123"
UrlPinterest == "https://www.pinterest.com/pin/123"
UrlInstagram == "https://www.instagram.com/p/Cabc123/"
\* A link the YouTube pattern and the TikTok pattern both match.
UrlMulti == "https://www.youtube.com/redirect?q=https://www.tiktok.com/@user/video/123"

Urls == {"", UrlWatch, UrlShort, UrlShorts, UrlChannel, UrlLinkedIn, UrlExample,
         UrlTikTok, UrlTwitter, UrlFacebook, UrlPinterest, UrlMulti, UrlInstagram}

\* constants.tsx PLATFORMS, in property order (Object.values order).
PlatformOrder == <<"YouTube", "TikTok", "Instagram", "Twitter", "Facebook", "LinkedIn", "Pinterest">>

\* platform.regex.test(url) for each entry of PLATFORMS.
RegexTest(p, u) ==
    CASE p = "YouTube" -> u \in {UrlWatch, UrlShort, UrlShorts, UrlChannel, UrlMulti}
      [] p = "TikTok" -> u \in {UrlTikTok, UrlMulti}
      [] p = "Instagram" -> u \in {UrlInstagram}
      [] p = "Twitter" -> u \in {UrlTwitter}
      [] p = "Facebook" -> u \in {UrlFacebook}
      [] p = "LinkedIn" -> u \in {UrlLinkedIn}
      [] p = "Pinterest" -> u \in {UrlPinterest}
      [] OTHER -> FALSE

\* A detector that returns the last matching entry of the table.
getPlatformLastMatch(u) ==
    LET hits == {i \in 1..Len(PlatformOrder) : RegexTest(PlatformOrder[i], u)}
    IN IF hits = {} THEN NoVal
       ELSE PlatformOrder[CHOOSE i \in hits : \A j \in hits : i >= j]

\* A detector that falls through to the first table entry instead of null.
getPlatformDefaulting(u) ==
    LET hits == {i \in 1..Len(PlatformOrder) : RegexTest(PlatformOrder[i], u)}
    IN IF hits = {} THEN PlatformOrder[1]
       ELSE PlatformOrder[CHOOSE i \in hits : \A j \in hits : i <= j]

\* utils/platform.ts getPlatform: first platform in table order whose regex matches, else null.
getPlatform(u) ==
    LET hits == {i \in 1..Len(PlatformOrder) : RegexTest(PlatformOrder[i], u)}
    IN IF hits = {} THEN NoVal
       ELSE PlatformOrder[CHOOSE i \in hits : \A j \in hits : i <= j]

(***************************************************************************)
(* Upstream documents.  An Invidious video document carries formatStreams  *)
(* (muxed) and adaptiveFormats (demuxed); absent fields are NoVal, absent  *)
(* numbers are 0 (every use in the code is through a truthiness test or    *)
(* `|| 0`), except lengthSeconds, whose absence is NoLength.               *)
(***************************************************************************)
NoLength == 0 - 1

\* A description is held as the number of its characters; NoDescription stands for undefined.
NoDescription == 0 - 1

Stream(type, qualityLabel, url, bitrate, contentLength, container, size) ==
    [type |-> type, qualityLabel |-> qualityLabel, url |-> url, bitrate |-> bitrate,
     contentLength |-> contentLength, container |-> container, size |-> size]

Muxed360a == Stream("video/mp4", "360p", "https://cdn/360a", 0, 5242880, "mp4", 5242880)
Muxed360b == Stream("video/mp4", "360p", "https://cdn/360b", 0, 0, NoVal, 0)
Muxed720 == Stream("video/mp4", "720p", "https://cdn/720m", 0, 0, "mp4", 0)
MuxedNoUrl == Stream("video/mp4", "240p", NoVal, 0, 0, "mp4", 0)
Video1080p60 == Stream("video/mp4", "1080p60", "https://cdn/1080p60", 0, 7864320, "mp4", 0)
Video720 == Stream("video/mp4", "720p", "https://cdn/720", 0, 1, "mp4", 0)
Video1440p60 == Stream("video/mp4", "1440p60", "https://cdn/1440p60", 0, 0, "mp4", 0)
VideoWebm == Stream("video/webm", "480p", "https://cdn/480w", 0, 0, "webm", 0)
Audio128 == Stream("audio/mp4", NoVal, "https://cdn/a128", 128, 1048576, "m4a", 0)
Audio160 == Stream("audio/webm", NoVal, "https://cdn/a160", 160, 0, "webm", 0)
Audio160b == Stream("audio/mp4", NoVal, "https://cdn/a160b", 160, 0, "m4a", 0)
AudioNoRate == Stream("audio/mp4", NoVal, "https://cdn/a0", 0, 0, "m4a", 0)

VideoDoc(title, lengthSeconds, formatStreams, adaptiveFormats, description) ==
    [title |-> title, lengthSeconds |-> lengthSeconds,
     formatStreams |-> formatStreams, adaptiveFormats |-> adaptiveFormats,
     description |-> description]

DocRich == VideoDoc("Rich", 3725, <<Muxed360a, Muxed720, Muxed360b>>,
                    <<Video1080p60, Video720, Video1440p60, Audio128, Audio160, Audio160b>>, 800)
DocPlain == VideoDoc("Plain", 0, <<Muxed720, Muxed360a>>, <<Video720, AudioNoRate, Audio128>>, NoDescription)
DocUnusable == VideoDoc("Unusable", NoLength, <<MuxedNoUrl>>, <<VideoWebm>>, 120)
DocEmpty == VideoDoc(NoVal, NoLength, <<>>, <<>>, NoDescription)
DocNoLength == VideoDoc("NoLength", NoLength, <<Muxed720>>, <<Audio128>>, 500)

VideoDocs == {DocRich, DocPlain, DocUnusable, DocEmpty, DocNoLength}

\* s.type?.includes(needle) on the type strings above.
TypeIncludes(type, needle) ==
    CASE needle = "video/mp4" -> type = "video/mp4"
      [] needle = "audio" -> type \in {"audio/mp4", "audio/webm"}
      [] OTHER -> FALSE

(***************************************************************************)
(* Array helpers.                                                          *)
(***************************************************************************)
\* Array.prototype.filter with a predicate given as the set of kept indices.
KeepIndices(seq, keep) ==
    LET idx == [i \in 1..Len(seq) |-> i]
        kept == SelectSeq(idx, LAMBDA i : i \in keep)
    IN [k \in 1..Len(kept) |-> seq[kept[k]]]

\* Array.prototype.sort((a, b) => key(a) - key(b)): stable, ascending in keys[i] = key(seq[i]).
StableSort(seq, keys) ==
    LET n == Len(seq)
        rank(i) == Cardinality({j \in 1..n : keys[j] < keys[i] \/ (keys[j] = keys[i] /\ j < i)}) + 1
    IN [p \in 1..n |-> seq[CHOOSE i \in 1..n : rank(i) = p]]

\* Array.prototype.indexOf, 0-based, -1 when absent.
IndexOf(seq, x) ==
    IF \E i \in 1..Len(seq) : seq[i] = x
    THEN (CHOOSE i \in 1..Len(seq) : seq[i] = x /\ \A j \in 1..(i - 1) : seq[j] # x) - 1
    ELSE -1

\* Number.prototype.toFixed(digits) of bytes / 1024 / 1024, followed by ' MB'.
\* The quotient is exact in binary floating point, so toFixed rounds the exact
\* value, taking the larger neighbour on a tie.
Pow10(d) == IF d = 0 THEN 1 ELSE IF d = 1 THEN 10 ELSE 100
Pad(frac, d) ==
    IF d = 2 /\ frac < 10 THEN "0" \o ToString(frac) ELSE ToString(frac)
FormatMB(bytes, digits) ==
    LET whole == bytes \div 1048576
        rest == bytes % 1048576
        scaled == whole * Pow10(digits) + (2 * rest * Pow10(digits) + 1048576) \div (2 * 1048576)
    IN ToString(scaled \div Pow10(digits)) \o "." \o Pad(scaled % Pow10(digits), digits) \o " MB"

Option(quality, format, url, size) ==
    [url |-> url, size |-> size, quality |-> quality, format |-> format]

\* A resolver either returns a MediaInfo or throws an Error with a message.
Ok(info) == [info |-> info, ok |-> TRUE, msg |-> NoVal]
Fail(msg) == [info |-> Null, ok |-> FALSE, msg |-> msg]

MediaInfo(title, platform, downloadOptions) ==
    [title |-> title, description |-> NoDescription, platform |-> platform, downloadOptions |-> downloadOptions,
     duration |-> NoVal]

WithDuration(info, duration) == [info EXCEPT !.duration = duration]

WithDescription(info, description) == [info EXCEPT !.description = description]

\* The number of characters of a string field.
Chars(str) == IF str = NoVal THEN NoDescription ELSE Len(str)

\* description?.slice(0, cap)
SliceLength(n, cap) == IF n = NoDescription THEN NoDescription ELSE IF n < cap THEN n ELSE cap

\* description || ''
OrEmpty(n) == IF n = NoDescription THEN 0 ELSE n

\* new Date(seconds * 1000).toISOString().substr(11, 8) and .substr(14, 5)
TwoDigits(n) == IF n < 10 THEN "0" \o ToString(n) ELSE ToString(n)
Hms(seconds) ==
    TwoDigits((seconds \div 3600) % 24) \o ":" \o TwoDigits((seconds \div 60) % 60)
        \o ":" \o TwoDigits(seconds % 60)
Ms(seconds) == TwoDigits((seconds \div 60) % 60) \o ":" \o TwoDigits(seconds % 60)

\* A sort by ascending bitrate.
SortByBitrateAscending(audio) == StableSort(audio, [i \in 1..Len(audio) |-> audio[i].bitrate])

\* audioStreams.sort((a, b) => (b.bitrate || 0) - (a.bitrate || 0)): descending bitrate, stable.
SortByBitrate(audio) == StableSort(audio, [i \in 1..Len(audio) |-> 0 - audio[i].bitrate])

IndicesWhere(seq, Test(_)) == {i \in 1..Len(seq) : Test(seq[i])}

(***************************************************************************)
(* downloadService draft "Mirrors": YouTube through an Invidious mirror    *)
(* loop (Multiple Invidious Mirrors).                                      *)
(***************************************************************************)
INV_MIRRORS == <<"https://invidious.snopyta.org", "https://y.com.sb", "https://inv.riverside.rocks",
                 "https://invidious.fdn.fr", "https://invidious.tiekoetter.com">>

\* An extractor that accepts every link.
MirrorsVideoIdLoose(u) == "abc12345678"

\* An extractor without the youtu.be alternative of the first pattern.
MirrorsVideoIdNoShortHost(u) ==
    IF u \in {UrlWatch, UrlShorts} THEN "abc12345678" ELSE NoVal

\* getYoutubeVideoId: two patterns tried in order.
MirrorsVideoId(u) ==
    IF u \in {UrlWatch, UrlShort, UrlShorts} THEN "abc12345678" ELSE NoVal

qualityOrder == <<"2160p", "1440p", "1080p", "720p", "480p", "360p", "240p", "144p", "audio">>

\* options.sort((a, b) => order.indexOf(a.quality) - order.indexOf(b.quality))
MirrorsSort(options) ==
    StableSort(options, [i \in 1..Len(options) |-> IndexOf(qualityOrder, options[i].quality)])

\* The options built from the chosen mirror's document, before the emptiness test and the sort.
MirrorsOptions(data) ==
    LET streams == data.formatStreams \o data.adaptiveFormats
        videoStreams == KeepIndices(streams, IndicesWhere(streams,
                            LAMBDA s : TypeIncludes(s.type, "video/mp4") /\ s.qualityLabel # NoVal))
        audioStreams == KeepIndices(streams, IndicesWhere(streams, LAMBDA s : TypeIncludes(s.type, "audio")))
        video == [i \in 1..Len(videoStreams) |->
                    Option(videoStreams[i].qualityLabel, "mp4", videoStreams[i].url,
                           IF videoStreams[i].contentLength # 0
                           THEN FormatMB(videoStreams[i].contentLength, 1) ELSE NoVal)]
    IN IF Len(audioStreams) > 0
       THEN LET bestAudio == SortByBitrate(audioStreams)[1]
            IN Append(video, Option("audio", "m4a", bestAudio.url,
                                    IF bestAudio.contentLength # 0
                                    THEN FormatMB(bestAudio.contentLength, 1) ELSE NoVal))
       ELSE video

\* fetchYouTubeInfo after the mirror loop: data is the document of the mirror that answered.
MirrorsBuild(data) ==
    IF data = Null THEN Fail("All YouTube mirrors failed. Try again later.")
    ELSE LET options == MirrorsOptions(data)
         IN IF Len(options) = 0 THEN Fail("No downloadable streams (private/live?)")
            ELSE Ok(WithDescription(WithDuration(MediaInfo(IF data.title # NoVal THEN data.title ELSE "YouTube Video",
                                           "YouTube", MirrorsSort(options)),
                                 IF data.lengthSeconds \notin {NoLength, 0}
                                 THEN Hms(data.lengthSeconds) ELSE "LIVE"), SliceLength(data.description, 500)))

(***************************************************************************)
(* downloadService draft "Probe": getInvidiousUrl probes the mirrors with  *)
(* HEAD requests, fetchYouTubeInfo then GETs the selected one.             *)
(***************************************************************************)
INV_MIRRORS_Probe == <<"https://invidious.io.lol", "https://invidious.snopyta.org", "https://y.com.sb",
                       "https://inv.riverside.rocks", "https://invidious.fdn.fr">>

\* getYoutubeVideoId: one pattern.
ProbeVideoId(u) ==
    IF u \in {UrlWatch, UrlShort} THEN "abc12345678" ELSE NoVal

\* downloadOptions.sort with (ia === -1 ? 999 : ia) - (ib === -1 ? 999 : ib)
ProbeSort(options) ==
    StableSort(options, [i \in 1..Len(options) |->
        LET ia == IndexOf(qualityOrder, options[i].quality) IN IF ia = -1 THEN 999 ELSE ia])

ProbeOptions(data) ==
    LET formats == data.adaptiveFormats
        videoStreams == KeepIndices(formats, IndicesWhere(formats,
                            LAMBDA s : TypeIncludes(s.type, "video/mp4") /\ s.qualityLabel # NoVal))
        audioStreams == KeepIndices(formats, IndicesWhere(formats, LAMBDA s : TypeIncludes(s.type, "audio")))
        video == [i \in 1..Len(videoStreams) |->
                    Option(videoStreams[i].qualityLabel, "mp4", videoStreams[i].url,
                           IF videoStreams[i].contentLength # 0
                           THEN FormatMB(videoStreams[i].contentLength, 2) ELSE NoVal)]
    IN IF Len(audioStreams) > 0
       THEN LET bestAudio == SortByBitrate(audioStreams)[1]
            IN Append(video, Option("audio", "m4a", bestAudio.url,
                                    IF bestAudio.contentLength # 0
                                    THEN FormatMB(bestAudio.contentLength, 2) ELSE NoVal))
       ELSE video

\* fetchYouTubeInfo after res.json(): data is the selected mirror's document.
ProbeBuild(data) ==
    LET downloadOptions == ProbeOptions(data)
    IN IF Len(downloadOptions) = 0 THEN Fail("No streams found (private / live?)")
       ELSE Ok(WithDescription(WithDuration(MediaInfo(IF data.title # NoVal THEN data.title ELSE "Untitled",
                                      "YouTube", ProbeSort(downloadOptions)),
                            Hms(IF data.lengthSeconds = NoLength THEN 0 ELSE data.lengthSeconds)), data.description))

(***************************************************************************)
(* downloadService draft "Backend": YouTube through the local ytdl backend *)
(* with a public Invidious fallback.                                       *)
(***************************************************************************)
invidiousInstancesFallback == <<"https://vid.puffyan.us", "https://invidious.projectsegfau.lt",
                                "https://invidious.kavin.rocks", "https://invidious.io.lol">>

\* url.match(/(?:v=|\/)([0-9A-Za-z_-]{11}).*/) in fetchYouTubeInfoFromInvidious and in the handler.
SlashVideoId(u) ==
    IF u \in {UrlWatch, UrlShort, UrlShorts} THEN "abc12345678" ELSE NoVal

\* One iteration of the fallback loop on a parsed 2xx document: the MediaInfo it returns,
\* or Null when the iteration ends in continue.
FallbackFromDoc(data) ==
    IF Len(data.formatStreams) = 0 THEN Null
    ELSE LET usable == KeepIndices(data.formatStreams, IndicesWhere(data.formatStreams,
                            LAMBDA f : f.url # NoVal /\ f.qualityLabel # NoVal))
             downloadOptions == [i \in 1..Len(usable) |->
                    Option(usable[i].qualityLabel,
                           IF usable[i].container # NoVal THEN usable[i].container ELSE "mp4",
                           usable[i].url,
                           IF usable[i].size # 0 THEN FormatMB(usable[i].size, 1) ELSE NoVal)]
         IN IF Len(downloadOptions) = 0 THEN Null
            \* new Date(undefined * 1000).toISOString() throws a RangeError, caught by the loop
            ELSE IF data.lengthSeconds = NoLength THEN Null
            ELSE WithDescription(WithDuration(MediaInfo(data.title, "YouTube", downloadOptions), Hms(data.lengthSeconds)), data.description)

(***************************************************************************)
(* Quality strings: parseInt and String.includes on the labels the         *)
(* upstream documents above can produce.                                   *)
(***************************************************************************)
QualityLabels == {"2160p", "1440p", "1080p", "720p", "480p", "360p", "240p", "144p", "1080p60", "1440p60"}

NoAudio(label) == label \o " (no audio)"

\* quality.includes(needle)
QualityIncludes(quality, needle) ==
    CASE needle = "audio only" -> quality = "audio only"
      [] needle = "no audio" -> \E l \in QualityLabels : quality = NoAudio(l)
      [] OTHER -> FALSE

\* parseInt(quality); -1 stands for NaN (no label here parses to a negative number).
ParseInt(quality) ==
    LET lead(l) == CASE l = "2160p" -> 2160 [] l \in {"1440p", "1440p60"} -> 1440
                     [] l \in {"1080p", "1080p60"} -> 1080 [] l = "720p" -> 720
                     [] l = "480p" -> 480 [] l = "360p" -> 360 [] l = "240p" -> 240
                     [] l = "144p" -> 144
    IN IF quality \in QualityLabels THEN lead(quality)
       ELSE IF \E l \in QualityLabels : quality = NoAudio(l)
            THEN lead(CHOOSE l \in QualityLabels : quality = NoAudio(l))
            ELSE -1

\* A deduplication that drops an option only when its quality equals its predecessor's.
UniqueOptionsAdjacent(downloadOptions) ==
    KeepIndices(downloadOptions,
                {i \in 1..Len(downloadOptions) :
                    i = 1 \/ downloadOptions[i - 1].quality # downloadOptions[i].quality})

\* Array.from(new Map(downloadOptions.map(item => [item.quality, item])).values()):
\* a key keeps the position of its first insertion and the value of its last.
UniqueOptions(downloadOptions) ==
    LET n == Len(downloadOptions)
        first == {i \in 1..n : \A j \in 1..(i - 1) : downloadOptions[j].quality # downloadOptions[i].quality}
        last(i) == CHOOSE j \in i..n : /\ downloadOptions[j].quality = downloadOptions[i].quality
                                       /\ \A k \in (j + 1)..n : downloadOptions[k].quality # downloadOptions[i].quality
        slots == KeepIndices([i \in 1..n |-> i], first)
    IN [k \in 1..Len(slots) |-> downloadOptions[last(slots[k])]]

(***************************************************************************)
(* api/youtube-info serverless handler (oEmbed, then an Invidious loop).   *)
(***************************************************************************)
invidiousInstances == <<"https://vid.puffyan.us", "https://invidious.projectsegfau.lt",
                        "https://inv.nadeko.net", "https://invidious.privacyredirect.com">>

OembedDoc == [title |-> "Oembed title", author_name |-> "Oembed author"]

WatchLink == Option("Watch on YouTube", "link", "https://www.youtube.com/watch?v=abc12345678", NoVal)

\* The loop's acceptance test: data.formatStreams && data.formatStreams.length > 0.
HandlerAccepts(data) == Len(data.formatStreams) > 0

\* downloadOptions as pushed from formatStreams and the best audio-only format.
HandlerExtract(videoData) ==
    LET usable == KeepIndices(videoData.formatStreams, IndicesWhere(videoData.formatStreams,
                        LAMBDA f : f.url # NoVal /\ f.qualityLabel # NoVal))
        video == [i \in 1..Len(usable) |->
                    Option(usable[i].qualityLabel,
                           IF usable[i].container # NoVal THEN usable[i].container ELSE "mp4",
                           usable[i].url,
                           IF usable[i].size # 0 THEN FormatMB(usable[i].size, 1) ELSE NoVal)]
        audioFormats == KeepIndices(videoData.adaptiveFormats, IndicesWhere(videoData.adaptiveFormats,
                            LAMBDA f : f.type # NoVal /\ TypeIncludes(f.type, "audio")))
    IN IF Len(audioFormats) > 0
       THEN LET bestAudio == SortByBitrate(audioFormats)[1]
            IN Append(video, Option("audio only", "m4a", bestAudio.url,
                                    IF bestAudio.size # 0 THEN FormatMB(bestAudio.size, 1) ELSE NoVal))
       ELSE video

HandlerScore(quality) ==
    IF QualityIncludes(quality, "audio only") THEN 0
    ELSE IF ParseInt(quality) = -1 THEN 1 ELSE ParseInt(quality)

\* uniqueOptions.sort((a, b) => getScore(b.quality) - getScore(a.quality))
HandlerSort(options) ==
    StableSort(options, [i \in 1..Len(options) |-> 0 - HandlerScore(options[i].quality)])

\* The 200 body when no instance was accepted.
HandlerFallbackInfo(oembedData) ==
    WithDescription(WithDuration(MediaInfo(oembedData.title, "YouTube", <<WatchLink>>), "N/A"), Len("Watch on YouTube"))

\* The 200 body built from the accepted document.
HandlerMediaInfo(videoData, oembedData) ==
    LET uniqueOptions == HandlerSort(UniqueOptions(HandlerExtract(videoData)))
    IN WithDescription(WithDuration(MediaInfo(IF videoData.title # NoVal THEN videoData.title ELSE oembedData.title,
                              "YouTube",
                              IF Len(uniqueOptions) > 0 THEN uniqueOptions ELSE <<WatchLink>>),
                    IF videoData.lengthSeconds \notin {NoLength, 0}
                    THEN Hms(videoData.lengthSeconds) ELSE "N/A"), OrEmpty(SliceLength(videoData.description, 500)))

(***************************************************************************)
(* backend/server.mjs: GET /api/youtube-info through ytdl-core.            *)
(***************************************************************************)
Format(hasVideo, hasAudio, container, qualityLabel, url, audioBitrate, contentLength) ==
    [qualityLabel |-> qualityLabel, url |-> url, contentLength |-> contentLength,
     container |-> container, hasVideo |-> hasVideo, hasAudio |-> hasAudio,
     audioBitrate |-> audioBitrate]

FmtMuxed360a == Format(TRUE, TRUE, "mp4", "360p", "https://yt/360a", 96, 5242880)
FmtMuxed360b == Format(TRUE, TRUE, "mp4", "360p", "https://yt/360b", 128, 0)
FmtMuxed720 == Format(TRUE, TRUE, "mp4", "720p", "https://yt/720", 128, 0)
FmtVideo1080 == Format(TRUE, FALSE, "mp4", "1080p", "https://yt/1080", 0, 7864320)
FmtVideo720 == Format(TRUE, FALSE, "mp4", "720p", "https://yt/720v", 0, 0)
FmtVideoWebm == Format(TRUE, FALSE, "webm", "1440p", "https://yt/1440w", 0, 0)
FmtAudio128 == Format(FALSE, TRUE, "mp4", NoVal, "https://yt/a128", 128, 1048576)
FmtAudio160 == Format(FALSE, TRUE, "webm", NoVal, "https://yt/a160", 160, 0)
FmtAudio160b == Format(FALSE, TRUE, "mp4", NoVal, "https://yt/a160b", 160, 0)
FmtAudioNoRate == Format(FALSE, TRUE, "mp4", NoVal, "https://yt/a0", 0, 0)

\* videoDetails.lengthSeconds is a decimal string ("0" for a live stream); it is held
\* here as the number parseInt reads from it.
YtdlInfo(title, lengthSeconds, formats, description) ==
    [title |-> title, lengthSeconds |-> lengthSeconds, description |-> description,
     formats |-> formats]

InfoRich == YtdlInfo("Rich", 3725, <<FmtMuxed360a, FmtVideo1080, FmtMuxed720, FmtMuxed360b,
                                     FmtVideo720, FmtAudio128, FmtAudio160, FmtAudio160b>>, 800)
InfoPlain == YtdlInfo("Plain", 0, <<FmtMuxed720, FmtMuxed360a, FmtAudioNoRate, FmtAudio128>>, NoDescription)
InfoWebmOnly == YtdlInfo("WebmOnly", 59, <<FmtVideoWebm>>, 120)
InfoNoFormats == YtdlInfo("NoFormats", 59, <<>>, 0)

YtdlInfos == {InfoRich, InfoPlain, InfoWebmOnly, InfoNoFormats}

\* ytdl.filterFormats(formats, filter)
FilterFormats(formats, filter) ==
    KeepIndices(formats, IndicesWhere(formats, LAMBDA f :
        CASE filter = "videoandaudio" -> f.hasVideo /\ f.hasAudio
          [] filter = "videoonly" -> f.hasVideo /\ ~f.hasAudio
          [] filter = "audioonly" -> ~f.hasVideo /\ f.hasAudio))

ServerSize(f) == IF f.contentLength # 0 THEN FormatMB(f.contentLength, 1) ELSE NoVal

\* downloadOptions as pushed by the three forEach/if blocks.
ServerExtract(formats) ==
    LET mp4(fs) == KeepIndices(fs, IndicesWhere(fs, LAMBDA f : f.container = "mp4" /\ f.qualityLabel # NoVal))
        muxed == mp4(FilterFormats(formats, "videoandaudio"))
        videoOnly == mp4(FilterFormats(formats, "videoonly"))
        audioFormats == FilterFormats(formats, "audioonly")
        video == [i \in 1..Len(muxed) |-> Option(muxed[i].qualityLabel, "mp4", muxed[i].url, ServerSize(muxed[i]))]
                 \o [i \in 1..Len(videoOnly) |->
                        Option(NoAudio(videoOnly[i].qualityLabel), "mp4", videoOnly[i].url, ServerSize(videoOnly[i]))]
    IN IF Len(audioFormats) > 0
       THEN LET bestAudio == StableSort(audioFormats,
                                 [i \in 1..Len(audioFormats) |-> 0 - audioFormats[i].audioBitrate])[1]
            IN Append(video, Option("audio only",
                                    IF bestAudio.container = "mp4" THEN "m4a" ELSE bestAudio.container,
                                    bestAudio.url, ServerSize(bestAudio)))
       ELSE video

\* A sort that gives the formats with audio no bonus.
ServerScoreNoBonus(quality) ==
    IF QualityIncludes(quality, "audio only") THEN 0
    ELSE IF ParseInt(quality) = -1 THEN 1
    ELSE ParseInt(quality)

ServerScore(quality) ==
    IF QualityIncludes(quality, "audio only") THEN 0
    ELSE IF ParseInt(quality) = -1 THEN 1
    ELSE ParseInt(quality) + (IF QualityIncludes(quality, "no audio") THEN 0 ELSE 10000)

ServerSort(options) ==
    StableSort(options, [i \in 1..Len(options) |-> 0 - ServerScore(options[i].quality)])

\* The mediaInfo the route caches and answers with.
ServerMediaInfo(info) ==
    WithDescription(WithDuration(MediaInfo(info.title, "YouTube", ServerSort(UniqueOptions(ServerExtract(info.formats)))),
                 Hms(info.lengthSeconds)), OrEmpty(SliceLength(info.description, 500)))

(***************************************************************************)
(* The single-endpoint resolvers: TikTok (tikwm) and Twitter (vxtwitter)   *)
(* in every draft, Facebook (fbdownloader) and Pinterest (pinloader) in    *)
(* the Mirrors and Backend drafts, whose resolvers are the same text.      *)
(***************************************************************************)
TikTokData(hdplay, play, wmplay, music, size, duration, title) ==
    [size |-> size, title |-> title, duration |-> duration, hdplay |-> hdplay,
     play |-> play, wmplay |-> wmplay, music |-> music]

TikRefused == [msg |-> "Url parsing is failed!", data |-> Null, code |-> 0 - 1]
TikVideo == [msg |-> "success", data |-> TikTokData("https://tik/hd", "https://tik/play", NoVal, "https://tik/music.mp3",
                                 3145728, 75, "Tik"),
             code |-> 0]
TikStill == [msg |-> "success", data |-> TikTokData(NoVal, "https://tik/still", NoVal, NoVal, 0, 0, NoVal),
             code |-> 0]
TikWatermarkOnly == [msg |-> "success", data |-> TikTokData(NoVal, NoVal, "https://tik/wm", NoVal, 0, 0, "Wm"),
                     code |-> 0]

TikTokBodies == {TikRefused, TikVideo, TikStill, TikWatermarkOnly}

\* A media entry of tweet.media.all; ext is m.url.split('.').pop().
TweetMedia(type, height, url, ext) == [type |-> type, url |-> url, height |-> height, ext |-> ext]

TwMissing == [tweet |-> Null, message |-> "Tweet is unavailable"]
TwText == [tweet |-> [text |-> "words only", media |-> <<>>], message |-> NoVal]
TwPoll == [tweet |-> [text |-> "a poll", media |-> <<TweetMedia("poll", 0, "https://tw/poll", "poll")>>],
           message |-> NoVal]
TwMedia == [tweet |-> [text |-> "clip",
                       media |-> <<TweetMedia("video", 720, "https://tw/v.mp4", "mp4"),
                                   TweetMedia("photo", 0, "https://tw/p.jpg", "jpg")>>],
            message |-> NoVal]

TwitterBodies == {TwMissing, TwText, TwPoll, TwMedia}

FbRefused == [message |-> "Private video", success |-> FALSE, hd |-> NoVal, sd |-> NoVal]
FbNone == [message |-> NoVal, success |-> TRUE, hd |-> NoVal, sd |-> NoVal]
FbBoth == [message |-> NoVal, success |-> TRUE, hd |-> "https://fb/hd.mp4", sd |-> "https://fb/sd.mp4"]

FacebookBodies == {FbRefused, FbNone, FbBoth}

PinRefused == [title |-> NoVal, description |-> NoVal, video |-> NoVal, message |-> NoVal, success |-> FALSE,
               image |-> NoVal]
PinNone == [title |-> NoVal, description |-> NoVal, video |-> NoVal, message |-> NoVal, success |-> TRUE,
               image |-> NoVal]
PinImage == [title |-> "Pin", description |-> "A pin", video |-> NoVal, message |-> NoVal, success |-> TRUE,
             image |-> "https://pin/i.jpg"]

PinterestBodies == {PinRefused, PinNone, PinImage}

\* ddinstagram JSON bodies; a carousel slide carries video_url or image_url.
InstagramData(video_url, image_url, carousel, caption) ==
    [video_url |-> video_url, image_url |-> image_url, carousel |-> carousel, caption |-> caption]
IgRefused == [data |-> Null, message |-> "Login required", success |-> FALSE]
IgNone == [data |-> InstagramData(NoVal, NoVal, <<>>, NoVal), message |-> NoVal, success |-> TRUE]
IgReel == [data |-> InstagramData("https://ig/v.mp4", "https://ig/cover.jpg", <<>>, "Reel"), message |-> NoVal,
           success |-> TRUE]
IgCarousel == [data |-> InstagramData(NoVal, NoVal,
                            <<[video_url |-> "https://ig/s1.mp4", image_url |-> NoVal],
                              [video_url |-> NoVal, image_url |-> "https://ig/s2.jpg"]>>, NoVal), message |-> NoVal,
               success |-> TRUE]

\* A carousel whose second item carries neither video_url nor image_url.
IgBareSlide == [data |-> InstagramData(NoVal, NoVal,
                             <<[video_url |-> NoVal, image_url |-> "https://ig/b1.jpg"],
                               [video_url |-> NoVal, image_url |-> NoVal]>>, "Two"), message |-> NoVal,
                success |-> TRUE]

InstagramBodies == {IgRefused, IgNone, IgReel, IgCarousel, IgBareSlide}

ApiBodies(name) ==
    CASE name = "TikTok" -> TikTokBodies
      [] name = "Instagram" -> InstagramBodies
      [] name = "Twitter" -> TwitterBodies
      [] name = "Facebook" -> FacebookBodies
      [] name = "Pinterest" -> PinterestBodies
      [] OTHER -> {}

ApiEndpoint(name) ==
    CASE name = "TikTok" -> "https://www.tikwm.com/api/"
      [] name = "Instagram" -> "https://ddinstagram.com/api/"
      [] name = "Twitter" -> "https://api.vxtwitter.com"
      [] name = "Facebook" -> "https://fbdownloader.org/api/"
      [] name = "Pinterest" -> "https://pinloader.net/api/"
      [] OTHER -> NoVal

\* if (!res.ok) throw new Error(...) of each resolver (res.statusText is 'Not Found' here).
StatusError(v, name) ==
    CASE name = "TikTok" /\ v \in {"Mirrors", "Backend"} -> "TikTok API down"
      [] name = "TikTok" /\ v = "Probe" -> "TikTok API error: Not Found"
      [] name = "TikTok" /\ v = "Vercel" -> "TikTok API unavailable"
      [] name = "Twitter" /\ v \in {"Mirrors", "Backend"} -> "Twitter API error"
      [] name = "Twitter" /\ v = "Probe" -> "vxtwitter error: Not Found"
      [] name = "Twitter" /\ v = "Vercel" -> "vxtwitter unavailable"
      [] name = "Instagram" -> "Instagram API error"
      [] name = "Facebook" -> "Facebook API error"
      [] name = "Pinterest" -> "Pinterest API error"

\* fetchTikTokInfo from the parsed body on.
TikTokBuild(v, json) ==
    IF json.code # 0 THEN Fail(IF json.msg # NoVal THEN json.msg ELSE "TikTok fetch failed")
    ELSE LET d == json.data
             digits == IF v = "Probe" THEN 2 ELSE 1
             videoUrl == IF d.hdplay # NoVal THEN d.hdplay
                         ELSE IF d.play # NoVal THEN d.play
                         ELSE IF v = "Probe" THEN d.wmplay ELSE NoVal
             video == IF videoUrl # NoVal
                      THEN <<Option("HD Video", "mp4", videoUrl,
                                    IF d.size # 0 THEN FormatMB(d.size, digits) ELSE NoVal)>>
                      ELSE <<>>
             opts == IF d.music # NoVal THEN Append(video, Option("Audio", "mp3", d.music, NoVal)) ELSE video
         IN IF Len(opts) = 0
            THEN Fail(IF v = "Probe" THEN "No downloadable media on this TikTok" ELSE "No media found")
            ELSE Ok(WithDescription(WithDuration(MediaInfo(IF d.title # NoVal THEN d.title ELSE "TikTok Video", "TikTok", opts),
                                 IF v = "Probe" THEN Ms(d.duration)
                                 ELSE IF d.duration # 0 THEN Ms(d.duration) ELSE "00:00"), Chars(d.title)))

\* fetchTwitterInfo from the parsed body on (before the Vercel draft's catch).
TwitterBuild(v, json) ==
    IF json.tweet = Null
    THEN Fail(IF v = "Vercel" THEN "Tweet not found"
              ELSE IF json.message # NoVal THEN json.message ELSE "Tweet not found")
    ELSE LET t == json.tweet
             media == KeepIndices(t.media, IndicesWhere(t.media, LAMBDA m : m.type \in {"video", "gif", "photo"}))
             opts == [i \in 1..Len(media) |->
                        IF media[i].type = "photo"
                        THEN Option(IF v = "Probe" THEN "Image" ELSE "Photo", media[i].ext, media[i].url, NoVal)
                        ELSE Option(IF media[i].height # 0 THEN ToString(media[i].height) \o "p"
                                    ELSE IF v = "Probe" THEN "undefinedp" ELSE "Video",
                                    media[i].ext, media[i].url, NoVal)]
         IN IF Len(opts) = 0
            THEN Fail(IF v = "Probe" THEN "No media in this tweet" ELSE "No media in tweet")
            ELSE Ok(WithDescription(MediaInfo(IF v = "Probe" THEN t.text ELSE t.text \o "...", "Twitter", opts), Chars(t.text)))

\* fetchInstagramInfo (ddinstagram) from the parsed body on.
InstagramBuild(json) ==
    IF ~json.success THEN Fail(IF json.message # NoVal THEN json.message ELSE "Instagram fetch failed")
    ELSE LET d == json.data
             video == IF d.video_url # NoVal THEN <<Option("Video", "mp4", d.video_url, NoVal)>> ELSE <<>>
             image == IF d.image_url # NoVal THEN <<Option("Image", "jpg", d.image_url, NoVal)>> ELSE <<>>
             slides == [i \in 1..Len(d.carousel) |->
                          IF d.carousel[i].video_url # NoVal
                          THEN Option("Slide " \o ToString(i) \o " (Video)", "mp4", d.carousel[i].video_url, NoVal)
                          ELSE Option("Slide " \o ToString(i) \o " (Image)", "jpg", d.carousel[i].image_url, NoVal)]
             opts == video \o image \o slides
         IN IF Len(opts) = 0 THEN Fail("No media found")
            ELSE Ok(WithDescription(MediaInfo(IF d.caption # NoVal THEN d.caption ELSE "Instagram Post", "Instagram", opts), Chars(d.caption)))

\* fetchFacebookInfo from the parsed body on.
FacebookBuild(json) ==
    IF ~json.success THEN Fail(IF json.message # NoVal THEN json.message ELSE "Facebook fetch failed")
    ELSE LET hd == IF json.hd # NoVal THEN <<Option("HD", "mp4", json.hd, NoVal)>> ELSE <<>>
             opts == IF json.sd # NoVal THEN Append(hd, Option("SD", "mp4", json.sd, NoVal)) ELSE hd
         IN IF Len(opts) = 0 THEN Fail("No video found (maybe private)")
            ELSE Ok(WithDescription(MediaInfo("Facebook Video", "Facebook", opts), 0))

\* fetchPinterestInfo from the parsed body on.
PinterestBuild(json) ==
    IF ~json.success THEN Fail(IF json.message # NoVal THEN json.message ELSE "Pinterest fetch failed")
    ELSE LET video == IF json.video # NoVal THEN <<Option("Video", "mp4", json.video, NoVal)>> ELSE <<>>
             opts == IF json.image # NoVal THEN Append(video, Option("Image", "jpg", json.image, NoVal)) ELSE video
         IN IF Len(opts) = 0 THEN Fail("No media found")
            ELSE Ok(WithDescription(MediaInfo(IF json.title # NoVal THEN json.title ELSE "Pinterest Pin", "Pinterest", opts), Chars(json.description)))

\* saveig JSON bodies: json.data is a list of items or one object; mp4 tells whether the
\* url includes '.mp4'.
SaveigItem(type, url, mp4) == [type |-> type, url |-> url, mp4 |-> mp4]
SvNoData == [data |-> Null]
SvEmptyList == [data |-> [isArray |-> TRUE, items |-> <<>>]]
SvNoUrl == [data |-> [isArray |-> TRUE, items |-> <<SaveigItem("video", NoVal, FALSE)>>]]
SvPair == [data |-> [isArray |-> TRUE,
                     items |-> <<SaveigItem("image", NoVal, FALSE),
                                 SaveigItem("video", "https://sv/a", FALSE),
                                 SaveigItem("image", "https://sv/b.jpg", FALSE)>>]]
SvSingle == [data |-> [url |-> "https://sv/m.mp4", title |-> "Clip", mp4 |-> TRUE, isArray |-> FALSE]]
SvBare == [data |-> [url |-> NoVal, title |-> NoVal, mp4 |-> FALSE, isArray |-> FALSE]]

SaveigBodies == {SvNoData, SvEmptyList, SvNoUrl, SvPair, SvSingle, SvBare}

InstagramApis == <<"https://api.saveig.app/api/download", "https://v3.saveig.app/api/download">>

\* The options one saveig body yields (the Vercel draft's fetchInstagramInfo, loop body).
SaveigOptions(json) ==
    IF json.data = Null THEN <<>>
    ELSE LET d == json.data
         IN IF d.isArray
            THEN LET kept == KeepIndices([i \in 1..Len(d.items) |-> i],
                                         {i \in 1..Len(d.items) : d.items[i].url # NoVal})
                     isVideo(i) == d.items[i].type = "video" \/ d.items[i].mp4
                     kind(i) == IF isVideo(i) THEN "Video" ELSE "Image"
                 IN [k \in 1..Len(kept) |->
                        Option(IF Len(d.items) > 1
                               THEN "Item " \o ToString(kept[k]) \o " (" \o kind(kept[k]) \o ")"
                               ELSE kind(kept[k]),
                               IF isVideo(kept[k]) THEN "mp4" ELSE "jpg",
                               d.items[kept[k]].url, NoVal)]
            ELSE IF d.url # NoVal
                 THEN <<Option("Media", IF d.mp4 THEN "mp4" ELSE "jpg", d.url, NoVal)>>
                 ELSE <<>>

\* The MediaInfo the loop body returns for a body that yields options.
SaveigInfo(json) ==
    WithDescription(MediaInfo(IF ~json.data.isArray /\ json.data.title # NoVal THEN json.data.title ELSE "Instagram Post",
              "Instagram", SaveigOptions(json)), 0)

\* The catch block the Vercel draft wraps its TikTok and Twitter resolvers in.
ResolverCatch(v, name, result) ==
    IF v = "Vercel" /\ name = "Twitter" /\ ~result.ok
    THEN Fail("Failed to fetch Twitter/X post. The API may be temporarily unavailable.")
    ELSE result

\* The resolver of platform name settles on a response that arrived (or on the
\* rejection of its fetch): what it returns or throws.
ApiResult(v, name, resp) ==
    ResolverCatch(v, name,
        CASE resp.kind = "throw" -> Fail("Failed to fetch")
          [] resp.kind = "hang" -> Fail("signal timed out")
          [] resp.kind = "status" -> Fail(StatusError(v, name))
          [] resp.kind = "badjson" -> Fail("Unexpected token < in JSON at position 0")
          [] resp.kind = "ok" /\ name = "TikTok" -> TikTokBuild(v, resp.data)
          [] resp.kind = "ok" /\ name = "Instagram" -> InstagramBuild(resp.data)
          [] resp.kind = "ok" /\ name = "Twitter" -> TwitterBuild(v, resp.data)
          [] resp.kind = "ok" /\ name = "Facebook" -> FacebookBuild(resp.data)
          [] resp.kind = "ok" /\ name = "Pinterest" -> PinterestBuild(resp.data))

(***************************************************************************)
(* fetchMediaInfo, the facade of each draft.                               *)
(***************************************************************************)
Variants == {"Mirrors", "Backend", "Probe", "Vercel"}

ComingSoon(name) == "Support for " \o name \o " is coming soon!"

\* The platforms whose case throws without a network call, with the message thrown.
UnsupportedThrow(v, name) ==
    CASE v \in {"Mirrors", "Backend"} /\ name = "LinkedIn" -> "LinkedIn not supported (no public API)"
      [] v = "Probe" /\ name \in {"Instagram", "Facebook", "LinkedIn", "Pinterest"} -> ComingSoon(name)
      [] v = "Vercel" /\ name = "LinkedIn" -> "LinkedIn downloads are not supported (no public API available)"
      [] v = "Vercel" /\ name = "Facebook" ->
            "Facebook downloads are currently unavailable. Most videos are private or require authentication."
      [] v = "Vercel" /\ name = "Pinterest" -> "Pinterest downloads are currently unavailable."
      [] OTHER -> NoVal

\* msg.includes('coming soon')
IncludesComingSoon(msg) == \E i \in 1..Len(PlatformOrder) : msg = ComingSoon(PlatformOrder[i])

\* The catch block of fetchMediaInfo: the message of the Error it rethrows.
fetchMediaInfoCatch(v, name, msg) ==
    IF v = "Probe"
    THEN IF IncludesComingSoon(msg) THEN msg ELSE "Failed to fetch " \o name \o " media"
    ELSE IF msg # "" THEN msg
         ELSE IF v = "Vercel" THEN "Failed to fetch " \o name \o " media. Please try again."
              ELSE "Failed to fetch " \o name \o " media"

(***************************************************************************)
(* State.                                                                  *)
(***************************************************************************)
\* A link to a second video, which only the backend's own clients send.
UrlOther == "https://www.youtube.com/watch?v=xyz98765432"

\* ytdl.getVideoID(url), for a url that validates.
GetVideoID(u) == IF u = UrlOther THEN "xyz98765432" ELSE "abc12345678"

VideoIds == {"abc12345678", "xyz98765432"}

VARIABLES
    variant,      \* the downloadService draft the App is built with
    url,          \* App state: the input box
    isLoading,    \* App state
    error,        \* App state: message shown, or NoVal
    mediaInfo,    \* App state: the resolved record, or Null
    aiSummary,    \* App state
    pc,           \* where the running handleFetch is suspended ("idle": none running)
    mi,           \* index of the next mirror in the running loop
    apiUrl,       \* Probe draft: the URL getInvidiousUrl returned
    reqUrl,       \* the url the last handleFetch was invoked with (NoVal before the first)
    fetchCalls,   \* fetchMediaInfo invocations made by the last handleFetch
    requests,     \* network requests issued by the last handleFetch, in order
    resolverErr,  \* message of the Error the resolver threw in the last handleFetch
    extracted,    \* the options of the shown mediaInfo before deduplication and sort
    history,      \* App state: the download history, most recent first
    downloads,    \* number of handleDownload calls so far
    selectedQuality, \* MediaPreview state (NoVal while no preview is mounted)
    touched,      \* the user changed the selection since the preview was mounted
    downloaded,   \* the last call of onDownload: its option and what the preview showed
    cache,        \* backend: the response cache, a Map in insertion order
    timers,       \* backend: per video id, the time left of its pending eviction timers
    entryAge,     \* backend: per video id, the time since its cache entry was stored
    pending,      \* backend: requests awaiting ytdl.getInfo
    received,     \* backend: requests received so far
    getInfoCalls, \* backend: ytdl.getInfo calls made so far
    reply         \* backend: the last response sent

uiVars == <<history, downloads, downloaded>>
serverVars == <<cache, timers, entryAge, pending, received, getInfoCalls, reply>>

vars == <<variant, url, isLoading, error, mediaInfo, aiSummary, pc, mi, apiUrl,
          reqUrl, fetchCalls, requests, resolverErr, extracted,
         history, downloads, selectedQuality, touched, downloaded,
         cache, timers, entryAge, pending, received, getInfoCalls, reply>>

Request(to, method, kind, data) == [data |-> data, kind |-> kind, to |-> to, method |-> method]

\* What a fetch followed by res.json() can end in: the promise rejects (transport
\* error), a non-2xx status, the upstream never answers ("hang": the fetch rejects when
\* its AbortSignal.timeout fires and stays pending when it carries none), a 2xx body that
\* does not parse, a 2xx JSON value.
FailKinds == {"throw", "status", "hang"}
GetResponses ==
    {[data |-> Null, kind |-> k] : k \in FailKinds \cup {"badjson"}}
    \cup {[data |-> d, kind |-> "ok"] : d \in VideoDocs \cup {Null}}
HeadResponses == {[data |-> Null, kind |-> k] : k \in FailKinds \cup {"ok"}}

ApiResponses(name) ==
    {[data |-> Null, kind |-> k] : k \in FailKinds \cup {"badjson"}}
    \cup {[data |-> d, kind |-> "ok"] : d \in ApiBodies(name)}

InstagramResponses ==
    {[data |-> Null, kind |-> k] : k \in FailKinds \cup {"badjson"}}
    \cup {[data |-> d, kind |-> "ok"] : d \in SaveigBodies \cup {Null}}

\* The AbortSignal.timeout, in ms, of the fetch a resolver of draft v awaits at site
\* (0: the fetch carries no signal); name is the platform being resolved.
NoDeadline(v, site, name) == 0
Deadline(v, site, name) ==
    CASE site = "mirrorsLoop" -> 8000
      [] site = "probeHead" -> 5000
      [] site = "fallbackLoop" -> 5000
      [] site = "backendFetch" -> 3000
      [] site = "vercelFetch" -> 15000
      [] site = "handlerLoop" -> 5000
      [] site = "apiFetch" /\ v = "Vercel" /\ name = "TikTok" -> 10000
      [] site = "apiFetch" /\ v = "Vercel" /\ name = "Twitter" -> 8000
      [] site = "instagramLoop" -> 8000
      [] OTHER -> 0

Summaries == {NoVal, "Could not generate AI summary at this time."}

UnsupportedMsg == "Unsupported platform or invalid URL. Please try a link from YouTube, TikTok, Instagram, etc."

Init ==
    /\ variant \in Variants
    /\ url = ""
    /\ isLoading = FALSE
    /\ error = NoVal
    /\ mediaInfo = Null
    /\ aiSummary = NoVal
    /\ pc = "idle"
    /\ mi = 1
    /\ apiUrl = NoVal
    /\ reqUrl = NoVal
    /\ fetchCalls = 0
    /\ requests = <<>>
    /\ resolverErr = NoVal
    /\ extracted = <<>>
    /\ history = <<>>
    /\ downloads = 0
    /\ selectedQuality = NoVal
    /\ touched = FALSE
    /\ downloaded = Null
    /\ cache = <<>>
    /\ timers = [id \in VideoIds |-> <<>>]
    /\ entryAge = [id \in VideoIds |-> 0]
    /\ pending = {}
    /\ received = 0
    /\ getInfoCalls = 0
    /\ reply = Null

\* Rendering MediaPreview throws (no error boundary catches it, React unmounts the App):
\* .quality of downloadOptions[0] when the list is empty, .toUpperCase() of an option's
\* missing quality or format.
PreviewCrashed ==
    /\ mediaInfo # Null
    /\ \/ Len(mediaInfo.downloadOptions) = 0
       \/ \E i \in 1..Len(mediaInfo.downloadOptions) :
             \/ mediaInfo.downloadOptions[i].quality = NoVal
             \/ mediaInfo.downloadOptions[i].format = NoVal

\* MediaPreview: a preview that starts on the last option of the list.
InitialQualityLast(info) ==
    IF Len(info.downloadOptions) = 0 THEN NoVal
    ELSE info.downloadOptions[Len(info.downloadOptions)].quality

\* MediaPreview: useState(mediaInfo.downloadOptions[0].quality), evaluated when the preview
\* mounts (reading .quality of undefined throws when the list is empty).
InitialQuality(info) ==
    IF Len(info.downloadOptions) = 0 THEN NoVal
    ELSE info.downloadOptions[1].quality

\* A handleFetch whose failure path leaves the loading flag set.
SettleKeepsLoading(result, raw) ==
    IF result.ok
    THEN /\ mediaInfo' = result.info /\ selectedQuality' = InitialQuality(result.info) /\ touched' = FALSE
         /\ extracted' = raw
         /\ pc' = "summary"
         /\ UNCHANGED <<error, isLoading, resolverErr>>
    ELSE /\ resolverErr' = result.msg
         /\ error' = fetchMediaInfoCatch(variant, getPlatform(reqUrl), result.msg)
         /\ pc' = "idle"
         /\ UNCHANGED <<isLoading, mediaInfo, selectedQuality, touched, extracted>>

\* fetchMediaInfo settles with result: handleFetch's try/catch/finally.
Settle(result, raw) ==
    IF result.ok
    THEN /\ mediaInfo' = result.info /\ selectedQuality' = InitialQuality(result.info) /\ touched' = FALSE
         /\ extracted' = raw
         /\ pc' = "summary"
         /\ UNCHANGED <<error, isLoading, resolverErr>>
    ELSE /\ resolverErr' = result.msg
         /\ error' = fetchMediaInfoCatch(variant, getPlatform(reqUrl), result.msg)
         /\ isLoading' = FALSE
         /\ pc' = "idle"
         /\ UNCHANGED <<mediaInfo, selectedQuality, touched, extracted>>

\* UrlInputForm: the user edits the input box (disabled while loading).  The record
\* of the last handleFetch (reqUrl, fetchCalls, requests, resolverErr) is dropped here.
SetUrl(u) ==
    /\ ~PreviewCrashed
    /\ ~isLoading
    /\ u # url
    /\ url' = u
    /\ reqUrl' = NoVal
    /\ fetchCalls' = 0
    /\ requests' = <<>>
    /\ resolverErr' = NoVal
    /\ mi' = 1
    /\ apiUrl' = NoVal
    /\ UNCHANGED <<serverVars, uiVars, variant, isLoading, error, mediaInfo, selectedQuality, touched, aiSummary, pc, extracted>>

\* A facade whose every non-YouTube case calls a network resolver.
FirstStepAlwaysFetches(v, name, u) ==
    IF name = "YouTube" THEN "vercelFetch" ELSE "apiFetch"

\* The first suspension point of the platform's resolver, or NoVal when it throws at once.
FirstStep(v, name, u) ==
    CASE name = "YouTube" /\ v = "Mirrors" -> IF MirrorsVideoId(u) = NoVal THEN NoVal ELSE "mirrorsLoop"
      [] name = "YouTube" /\ v = "Probe" -> IF ProbeVideoId(u) = NoVal THEN NoVal ELSE "probeHead"
      [] name = "YouTube" /\ v = "Backend" -> "backendFetch"
      [] name = "YouTube" /\ v = "Vercel" -> "vercelFetch"
      [] name \in {"TikTok", "Twitter"} -> "apiFetch"
      [] name \in {"Instagram", "Facebook", "Pinterest"} /\ v \in {"Mirrors", "Backend"} -> "apiFetch"
      [] name = "Instagram" /\ v = "Vercel" -> "instagramLoop"
      [] OTHER -> NoVal

\* The message thrown by a resolver that throws before its first network call.
FirstThrow(v, name) ==
    IF name = "YouTube" THEN "Invalid YouTube URL" ELSE UnsupportedThrow(v, name)

\* App.handleFetch up to its first await (the submit button is disabled while loading).
HandleFetch ==
    /\ ~PreviewCrashed
    /\ ~isLoading
    /\ pc = "idle"
    /\ reqUrl' = url
    /\ requests' = <<>>
    /\ mi' = 1
    /\ apiUrl' = NoVal
    /\ UNCHANGED <<serverVars, uiVars, variant, url>>
    /\ IF url = ""
       THEN /\ error' = "Please enter a URL."
            /\ fetchCalls' = 0
            /\ resolverErr' = NoVal
            /\ UNCHANGED <<isLoading, mediaInfo, selectedQuality, touched, aiSummary, pc, extracted>>
       ELSE LET platform == getPlatform(url)
            IN IF platform = NoVal
               THEN /\ error' = UnsupportedMsg
                    /\ mediaInfo' = Null /\ selectedQuality' = NoVal /\ touched' = FALSE
                    /\ aiSummary' = NoVal
                    /\ isLoading' = FALSE
                    /\ fetchCalls' = 0
                    /\ resolverErr' = NoVal
                    /\ extracted' = <<>>
                    /\ UNCHANGED pc
               ELSE /\ fetchCalls' = 1
                    /\ aiSummary' = NoVal
                    /\ IF FirstStep(variant, platform, url) = NoVal
                       THEN /\ resolverErr' = FirstThrow(variant, platform)
                            /\ error' = fetchMediaInfoCatch(variant, platform, FirstThrow(variant, platform))
                            /\ mediaInfo' = Null /\ selectedQuality' = NoVal /\ touched' = FALSE
                            /\ extracted' = <<>>
                            /\ isLoading' = FALSE
                            /\ UNCHANGED pc
                       ELSE /\ pc' = FirstStep(variant, platform, url)
                            /\ error' = NoVal
                            /\ mediaInfo' = Null /\ selectedQuality' = NoVal /\ touched' = FALSE
                            /\ extracted' = <<>>
                            /\ resolverErr' = NoVal
                            /\ isLoading' = TRUE

\* handleFetch after setMediaInfo: generateSummary settles, then finally.
SummaryDone(s) ==
    /\ pc = "summary"
    /\ aiSummary' = s
    /\ isLoading' = FALSE
    /\ pc' = "idle"
    /\ UNCHANGED <<serverVars, uiVars, variant, url, error, mediaInfo, selectedQuality, touched, mi, apiUrl, reqUrl, fetchCalls,
                   requests, resolverErr, extracted>>

\* The awaited fetch carries no signal and its upstream never answers: the promise stays
\* pending and handleFetch never resumes.
Hangs(resp, site) ==
    resp.kind = "hang" /\ Deadline(variant, site, getPlatform(reqUrl)) = 0

Hung(at) ==
    /\ pc' = at
    /\ UNCHANGED <<isLoading, error, mediaInfo, selectedQuality, touched, resolverErr, extracted>>

\* The for-of loop is past its last endpoint after attempt i.
LoopExhaustedEarly(mirrors, i) == i >= Len(mirrors) - 1
LoopExhausted(mirrors, i) == i >= Len(mirrors)

\* The endpoint the i-th iteration of a for-of loop over mirrors contacts.
EndpointReversed(mirrors, i) == mirrors[Len(mirrors) + 1 - i]
Endpoint(mirrors, i) == mirrors[i]

\* Mirrors draft: one iteration of the loop in fetchYouTubeInfo, and what follows the loop.
MirrorsAttempt(resp) ==
    /\ pc = "mirrorsLoop"
    /\ requests' = Append(requests, Request(Endpoint(INV_MIRRORS, mi), "GET", resp.kind, resp.data))
    /\ UNCHANGED <<serverVars, uiVars, variant, url, aiSummary, apiUrl, reqUrl, fetchCalls>>
    /\ IF Hangs(resp, "mirrorsLoop")
       THEN Hung("hung") /\ UNCHANGED mi
       ELSE IF resp.kind = "ok"
       THEN /\ Settle(MirrorsBuild(resp.data),
                      IF resp.data = Null THEN <<>> ELSE MirrorsOptions(resp.data))
            /\ UNCHANGED mi
       ELSE IF LoopExhausted(INV_MIRRORS, mi)
            THEN /\ Settle(MirrorsBuild(Null), <<>>)
                 /\ UNCHANGED mi
            ELSE /\ mi' = mi + 1
                 /\ UNCHANGED <<isLoading, error, mediaInfo, selectedQuality, touched, pc, resolverErr, extracted>>

\* Probe draft: one iteration of the HEAD loop of getInvidiousUrl.
ProbeHead(resp) ==
    /\ pc = "probeHead"
    /\ requests' = Append(requests, Request(Endpoint(INV_MIRRORS_Probe, mi), "HEAD", resp.kind, Null))
    /\ UNCHANGED <<serverVars, uiVars, variant, url, aiSummary, reqUrl, fetchCalls>>
    /\ IF Hangs(resp, "probeHead")
       THEN Hung("hung") /\ UNCHANGED <<mi, apiUrl>>
       ELSE IF resp.kind = "ok"
       THEN /\ apiUrl' = Endpoint(INV_MIRRORS_Probe, mi)
            /\ pc' = "probeGet"
            /\ UNCHANGED <<isLoading, error, mediaInfo, selectedQuality, touched, mi, resolverErr, extracted>>
       ELSE IF LoopExhausted(INV_MIRRORS_Probe, mi)
            THEN /\ Settle(Fail("All Invidious mirrors are down"), <<>>)
                 /\ UNCHANGED <<mi, apiUrl>>
            ELSE /\ mi' = mi + 1
                 /\ UNCHANGED <<isLoading, error, mediaInfo, selectedQuality, touched, pc, apiUrl, resolverErr, extracted>>

\* fetchYouTubeInfo of the Probe draft from fetch(apiUrl) on.
ProbeGetResult(resp) ==
    CASE resp.kind = "throw" -> Fail("Failed to fetch")
      [] resp.kind = "hang" -> Fail("signal timed out")
      [] resp.kind = "status" -> Fail("Invidious error: Not Found")
      [] resp.kind = "badjson" -> Fail("Unexpected token < in JSON at position 0")
      [] resp.kind = "ok" /\ resp.data = Null ->
            Fail("Cannot read properties of null (reading 'adaptiveFormats')")
      [] OTHER -> ProbeBuild(resp.data)

\* Probe draft: the GET of the selected mirror, and the rest of fetchYouTubeInfo.
ProbeGet(resp) ==
    /\ pc = "probeGet"
    /\ requests' = Append(requests, Request(apiUrl, "GET", resp.kind, resp.data))
    /\ IF Hangs(resp, "probeGet")
       THEN Hung("hung")
       ELSE Settle(ProbeGetResult(resp), IF resp.data = Null THEN <<>> ELSE ProbeOptions(resp.data))
    /\ UNCHANGED <<serverVars, uiVars, variant, url, aiSummary, mi, apiUrl, reqUrl, fetchCalls>>

\* ytdl.validateURL(url)
ValidateURL(u) == u \in {UrlWatch, UrlShort, UrlShorts, UrlOther}

\* What the request to the local backend can end in: the fetch rejects (a TypeError whose
\* message is the engine's, or the TimeoutError of AbortSignal.timeout), or the route answers
\* after ytdl.getInfo threw (info = Null) or returned info.
BackendResponses ==
    {[info |-> Null, kind |-> k] : k \in {"failedToFetch", "networkError", "timeout"}}
    \cup {[info |-> i, kind |-> "served"] : i \in YtdlInfos \cup {Null}}

BackendUrl == "http://localhost:3001/api/youtube-info"

\* The error the try block of fetchYouTubeInfo throws (its name and message), Null when the
\* backend answered 2xx: a rejected fetch is a TypeError with the engine's message or the
\* TimeoutError of AbortSignal.timeout; a non-2xx answer is an Error with the route's message.
BackendThrown(u, resp) ==
    CASE resp.kind = "failedToFetch" -> [message |-> "Failed to fetch", name |-> "TypeError"]
      [] resp.kind = "networkError" ->
            [message |-> "NetworkError when attempting to fetch resource.", name |-> "TypeError"]
      [] resp.kind = "timeout" -> [message |-> "signal timed out", name |-> "TimeoutError"]
      [] resp.kind = "served" /\ ~ValidateURL(u) -> [message |-> "Invalid YouTube link", name |-> "Error"]
      [] resp.kind = "served" /\ resp.info = Null ->
            [message |-> "This content might be private, age-restricted, or otherwise unavailable.",
             name |-> "Error"]
      [] OTHER -> Null

\* A catch block that takes the fallback for every error.
TriggersFallbackAlways(err) == TRUE

\* err.name === 'AbortError' || err.message.includes('Failed to fetch')
TriggersFallback(err) ==
    \/ err.name = "AbortError"
    \/ err.message = "Failed to fetch"

\* fetchYouTubeInfo of the Backend draft when the fallback is not taken.
BackendResult(u, resp) ==
    IF BackendThrown(u, resp) # Null THEN Fail(BackendThrown(u, resp).message)
    ELSE Ok(ServerMediaInfo(resp.info))

\* Backend draft: the request to the local backend and the catch block of fetchYouTubeInfo.
BackendFetch(resp) ==
    /\ pc = "backendFetch"
    /\ requests' = Append(requests, Request(BackendUrl, "GET", resp.kind, resp.info))
    /\ UNCHANGED <<serverVars, uiVars, variant, url, aiSummary, mi, apiUrl, reqUrl, fetchCalls>>
    /\ IF BackendThrown(reqUrl, resp) # Null /\ TriggersFallback(BackendThrown(reqUrl, resp))
       THEN IF SlashVideoId(reqUrl) = NoVal
            THEN Settle(Fail("Invalid YouTube URL for fallback API"), <<>>)
            ELSE /\ pc' = "fallbackLoop"
                 /\ UNCHANGED <<isLoading, error, mediaInfo, selectedQuality, touched, resolverErr, extracted>>
       ELSE Settle(BackendResult(reqUrl, resp),
                   IF resp.info = Null THEN <<>> ELSE ServerExtract(resp.info.formats))

\* Backend draft: one iteration of the loop in fetchYouTubeInfoFromInvidious.
FallbackAttempt(resp) ==
    /\ pc = "fallbackLoop"
    /\ requests' = Append(requests, Request(Endpoint(invidiousInstancesFallback, mi), "GET", resp.kind, resp.data))
    /\ UNCHANGED <<serverVars, uiVars, variant, url, aiSummary, apiUrl, reqUrl, fetchCalls>>
    /\ IF Hangs(resp, "fallbackLoop")
       THEN Hung("hung") /\ UNCHANGED mi
       ELSE IF resp.kind = "ok" /\ resp.data # Null /\ FallbackFromDoc(resp.data) # Null
       THEN /\ Settle(Ok(FallbackFromDoc(resp.data)), FallbackFromDoc(resp.data).downloadOptions)
            /\ UNCHANGED mi
       ELSE IF LoopExhausted(invidiousInstancesFallback, mi)
            THEN /\ Settle(Fail("The local service is down and all public YouTube APIs failed. Please try again later."), <<>>)
                 /\ UNCHANGED mi
            ELSE /\ mi' = mi + 1
                 /\ UNCHANGED <<isLoading, error, mediaInfo, selectedQuality, touched, pc, resolverErr, extracted>>

VercelUrl == "/api/youtube-info"
OembedUrl == "https://www.youtube.com/oembed"

\* Vercel draft: the request reaches the serverless handler (or the fetch rejects); the
\* handler runs up to its first await.
VercelFetch(kind) ==
    /\ pc = "vercelFetch"
    /\ requests' = Append(requests, Request(VercelUrl, "GET", kind, Null))
    /\ UNCHANGED <<serverVars, uiVars, variant, url, aiSummary, mi, apiUrl, reqUrl, fetchCalls>>
    /\ IF kind = "throw"
       THEN Settle(Fail("Failed to fetch"), <<>>)
       ELSE IF SlashVideoId(reqUrl) = NoVal
            THEN Settle(Fail("Could not extract video ID"), <<>>)
            ELSE /\ pc' = "handlerOembed"
                 /\ UNCHANGED <<isLoading, error, mediaInfo, selectedQuality, touched, resolverErr, extracted>>

\* Serverless handler: the oEmbed request; any failure ends in the handler's catch (500).
HandlerOembed(kind) ==
    /\ pc = "handlerOembed"
    /\ requests' = Append(requests, Request(OembedUrl, "GET", kind, Null))
    /\ UNCHANGED <<serverVars, uiVars, variant, url, aiSummary, mi, apiUrl, reqUrl, fetchCalls>>
    /\ IF kind = "hang" /\ Deadline(variant, "handlerOembed", "YouTube") = 0
       THEN Hung("handlerHung")
       ELSE IF kind = "ok"
       THEN /\ pc' = "handlerLoop"
            /\ UNCHANGED <<isLoading, error, mediaInfo, selectedQuality, touched, resolverErr, extracted>>
       ELSE Settle(Fail("Failed to fetch video. It may be private, age-restricted, or unavailable."), <<>>)

\* Serverless handler: one iteration of the Invidious loop, and the response that follows it.
HandlerAttempt(resp) ==
    /\ pc = "handlerLoop"
    /\ requests' = Append(requests, Request(Endpoint(invidiousInstances, mi), "GET", resp.kind, resp.data))
    /\ UNCHANGED <<serverVars, uiVars, variant, url, aiSummary, apiUrl, reqUrl, fetchCalls>>
    /\ IF Hangs(resp, "handlerLoop")
       THEN Hung("handlerHung") /\ UNCHANGED mi
       ELSE IF resp.kind = "ok" /\ resp.data # Null /\ HandlerAccepts(resp.data)
       THEN /\ Settle(Ok(HandlerMediaInfo(resp.data, OembedDoc)), HandlerExtract(resp.data))
            /\ UNCHANGED mi
       ELSE IF LoopExhausted(invidiousInstances, mi)
            THEN /\ Settle(Ok(HandlerFallbackInfo(OembedDoc)), <<>>)
                 /\ UNCHANGED mi
            ELSE /\ mi' = mi + 1
                 /\ UNCHANGED <<isLoading, error, mediaInfo, selectedQuality, touched, pc, resolverErr, extracted>>

\* Vercel draft: the client's AbortSignal.timeout(15000) fires while the handler is running
\* (or is stuck on a fetch of its own that never settles).
VercelTimeout ==
    /\ pc \in {"handlerOembed", "handlerLoop", "handlerHung"}
    /\ Deadline(variant, "vercelFetch", "YouTube") > 0
    /\ Settle(Fail("signal timed out"), <<>>)
    /\ UNCHANGED <<serverVars, uiVars, variant, url, aiSummary, mi, apiUrl, reqUrl, fetchCalls, requests>>

\* The TikTok, Twitter, Facebook or Pinterest resolver: its one request and what follows.
ApiFetch(resp) ==
    LET name == getPlatform(reqUrl)
    IN /\ pc = "apiFetch"
       /\ resp \in ApiResponses(name)
       /\ requests' = Append(requests, Request(ApiEndpoint(name), "GET", resp.kind, resp.data))
       /\ UNCHANGED <<serverVars, uiVars, variant, url, aiSummary, mi, apiUrl, reqUrl, fetchCalls>>
       /\ IF Hangs(resp, "apiFetch")
          THEN Hung("hung")
          ELSE LET result == ApiResult(variant, name, resp)
               IN Settle(result, IF result.ok THEN result.info.downloadOptions ELSE <<>>)

\* Vercel draft: one turn of the loop of fetchInstagramInfo; a rejected fetch, its timeout,
\* a non-2xx status, a body that does not parse and a body without options all continue.
InstagramAttempt(resp) ==
    /\ pc = "instagramLoop"
    /\ requests' = Append(requests, Request(Endpoint(InstagramApis, mi), "GET", resp.kind, resp.data))
    /\ UNCHANGED <<serverVars, uiVars, variant, url, aiSummary, apiUrl, reqUrl, fetchCalls>>
    /\ IF Hangs(resp, "instagramLoop")
       THEN Hung("hung") /\ UNCHANGED mi
       ELSE IF resp.kind = "ok" /\ resp.data # Null /\ Len(SaveigOptions(resp.data)) > 0
       THEN /\ Settle(Ok(SaveigInfo(resp.data)), SaveigOptions(resp.data))
            /\ UNCHANGED mi
       ELSE IF LoopExhausted(InstagramApis, mi)
            THEN /\ Settle(Fail("Failed to fetch Instagram media. The post may be private or all APIs are unavailable."), <<>>)
                 /\ UNCHANGED mi
            ELSE /\ mi' = mi + 1
                 /\ UNCHANGED <<isLoading, error, mediaInfo, selectedQuality, touched, pc, resolverErr, extracted>>

\* MediaPreview: the user picks the i-th entry of the quality select, whose value is the
\* option's quality.
SelectQuality(i) ==
    /\ mediaInfo # Null
    /\ ~PreviewCrashed
    /\ i <= Len(mediaInfo.downloadOptions)
    /\ mediaInfo.downloadOptions[i].quality # selectedQuality
    /\ selectedQuality' = mediaInfo.downloadOptions[i].quality
    /\ touched' = TRUE
    /\ UNCHANGED <<serverVars, uiVars, variant, url, isLoading, error, mediaInfo, aiSummary, pc, mi,
                   apiUrl, reqUrl, fetchCalls, requests, resolverErr, extracted>>

\* MediaPreview: downloadOptions.find(opt => opt.quality === quality), as an index (0: none).
FindLastByQuality(options, quality) ==
    LET hits == {i \in 1..Len(options) : options[i].quality = quality}
    IN IF hits = {} THEN 0 ELSE CHOOSE i \in hits : \A j \in hits : j <= i

FindByQuality(options, quality) ==
    LET hits == {i \in 1..Len(options) : options[i].quality = quality}
    IN IF hits = {} THEN 0 ELSE CHOOSE i \in hits : \A j \in hits : i <= j

\* App.handleDownload: a history that keeps every previous item.
RetainedAll(h) == h

\* App.handleDownload: history.slice(0, 4).
Retained(h) == SubSeq(h, 1, IF Len(h) < 4 THEN Len(h) ELSE 4)

\* The setter useLocalStorage returns: the next render reads the value it was given.
SetHistory(value) == history' = value

\* The item handleDownload builds; seq orders the items by the time of their download.
HistoryItem(seq, info) == [title |-> info.title, seq |-> seq, platform |-> info.platform]

MaxDownloads == 6

\* MediaPreview.handleDownloadClick and the App.handleDownload it calls.  The history is
\* set first; mediaInfo.title.replace throws for a record without title, which ends the
\* handler before the link is clicked and the preview reset.
HandleDownloadClick ==
    /\ mediaInfo # Null
    /\ ~PreviewCrashed
    /\ downloads < MaxDownloads
    /\ FindByQuality(mediaInfo.downloadOptions, selectedQuality) # 0
    /\ downloaded' = [info |-> mediaInfo,
                      touched |-> touched, option |-> mediaInfo.downloadOptions[FindByQuality(mediaInfo.downloadOptions, selectedQuality)]]
    /\ downloads' = downloads + 1
    /\ SetHistory(<<HistoryItem(downloads + 1, mediaInfo)>> \o Retained(history))
    /\ IF mediaInfo.title = NoVal
       THEN UNCHANGED <<mediaInfo, selectedQuality, touched, aiSummary, url, reqUrl, fetchCalls,
                        requests, resolverErr, mi, apiUrl, extracted>>
       ELSE /\ mediaInfo' = Null /\ selectedQuality' = NoVal /\ touched' = FALSE
            /\ aiSummary' = NoVal
            /\ url' = ""
            /\ reqUrl' = NoVal
            /\ fetchCalls' = 0
            /\ requests' = <<>>
            /\ resolverErr' = NoVal
            /\ mi' = 1
            /\ apiUrl' = NoVal
            /\ extracted' = <<>>
    /\ UNCHANGED <<serverVars, variant, isLoading, error, pc>>

\* HistoryList renders its Clear button only for a non-empty history.
HandleClearHistory ==
    /\ ~PreviewCrashed
    /\ history # <<>>
    /\ SetHistory(<<>>)
    /\ UNCHANGED <<serverVars, downloads, downloaded, variant, url, isLoading, error, mediaInfo,
                   selectedQuality, touched, aiSummary, pc, mi, apiUrl, reqUrl, fetchCalls,
                   requests, resolverErr, extracted>>

AllApiResponses == UNION {ApiResponses(PlatformOrder[i]) : i \in 1..Len(PlatformOrder)}

Next ==
    \/ \E u \in Urls : SetUrl(u)
    \/ HandleFetch
    \/ \E s \in Summaries : SummaryDone(s)
    \/ \E resp \in GetResponses : MirrorsAttempt(resp)
    \/ \E resp \in HeadResponses : ProbeHead(resp)
    \/ \E resp \in GetResponses : ProbeGet(resp)
    \/ \E resp \in BackendResponses : BackendFetch(resp)
    \/ \E resp \in GetResponses : FallbackAttempt(resp)
    \/ \E kind \in {"throw", "ok"} : VercelFetch(kind)
    \/ \E kind \in {"throw", "status", "hang", "badjson", "ok"} : HandlerOembed(kind)
    \/ \E resp \in GetResponses : HandlerAttempt(resp)
    \/ VercelTimeout
    \/ \E resp \in AllApiResponses : ApiFetch(resp)
    \/ \E resp \in InstagramResponses : InstagramAttempt(resp)

Spec == Init /\ [][Next]_vars

\* The Mirrors draft resolving YouTube links.  A fetch that carries an
\* AbortSignal.timeout settles: its response arrives or the signal rejects it.
YouTubeUrls == {UrlWatch, UrlShort, UrlShorts, UrlChannel, UrlMulti}

MirrorsInit == Init /\ variant = "Mirrors"

MirrorsNext ==
    \/ \E u \in YouTubeUrls : SetUrl(u)
    \/ HandleFetch
    \/ \E s \in Summaries : SummaryDone(s)
    \/ \E resp \in GetResponses : MirrorsAttempt(resp)

MirrorsTimedStep ==
    /\ Deadline(variant, "mirrorsLoop", "YouTube") > 0
    /\ \E resp \in GetResponses : MirrorsAttempt(resp)

MirrorsLiveSpec == MirrorsInit /\ [][MirrorsNext]_vars /\ WF_vars(MirrorsTimedStep)

(***************************************************************************)
(* The backend process: the route GET /api/youtube-info with its cache.    *)
(***************************************************************************)
\* Map.prototype.has / get / set / delete on a Map held as its entries in insertion order.
MapHas(m, key) == \E i \in 1..Len(m) : m[i].key = key

MapGet(m, key) == m[CHOOSE i \in 1..Len(m) : m[i].key = key].value

\* A set that adds an entry whether or not the key is present.
MapSetAppends(m, key, value) == Append(m, [value |-> value, key |-> key])

MapSet(m, key, value) ==
    IF MapHas(m, key)
    THEN [i \in 1..Len(m) |-> IF m[i].key = key THEN [value |-> value, key |-> key] ELSE m[i]]
    ELSE Append(m, [value |-> value, key |-> key])

MapDelete(m, key) == SelectSeq(m, LAMBDA e : e.key # key)

\* A route that never finds its cache entry.
CacheHitNever(m, u) == FALSE

\* The route's cache test, cache.has(ytdl.getVideoID(url)).
CacheHit(m, u) == MapHas(m, GetVideoID(u))

\* The request passes the route's first test.
ValidRequest(u) == u # NoVal /\ ValidateURL(u)

MaxRequests == 2

\* The urls of the requests the backend receives (NoVal: no url parameter).
ServerUrls == {UrlWatch, UrlShort, UrlOther, UrlChannel, NoVal}

\* A video one of whose muxed formats carries a label that is no resolution.
FmtMuxedOdd == Format(TRUE, TRUE, "mp4", "HD", "https://yt/hd", 128, 0)
InfoOddLabel == YtdlInfo("OddLabel", 59, <<FmtAudio128, FmtMuxedOdd, FmtVideo1080, FmtMuxed360a>>, 500)

\* What ytdl.getInfo settles with: it throws (Null) or returns info.
GetInfoOutcomes == {Null, InfoRich, InfoPlain, InfoOddLabel}

InvalidLinkBody == [error |-> "Invalid YouTube link"]
UnavailableBody == [error |-> "This content might be private, age-restricted, or otherwise unavailable."]

Reply(n, u, status, body, hit) == [url |-> u, n |-> n, status |-> status, body |-> body, hit |-> hit]

\* The route up to its await: 400 for a missing or invalid url, the cached record on a
\* hit, otherwise the call of ytdl.getInfo.
ServerRequest(u) ==
    /\ received < MaxRequests
    /\ received' = received + 1
    /\ IF ~ValidRequest(u)
       THEN /\ reply' = Reply(received + 1, u, 400, InvalidLinkBody, FALSE)
            /\ UNCHANGED <<pending, getInfoCalls>>
       ELSE IF CacheHit(cache, u)
            THEN /\ reply' = Reply(received + 1, u, 200, MapGet(cache, GetVideoID(u)), TRUE)
                 /\ UNCHANGED <<pending, getInfoCalls>>
            ELSE /\ pending' = pending \cup {[url |-> u, n |-> received + 1]}
                 /\ getInfoCalls' = getInfoCalls + 1
                 /\ UNCHANGED reply
    /\ UNCHANGED <<cache, timers, entryAge, uiVars, selectedQuality, touched, variant, url, isLoading, error,
                   mediaInfo, aiSummary, pc, mi, apiUrl, reqUrl, fetchCalls, requests,
                   resolverErr, extracted>>

\* The delay of the eviction timer, 60 * 60 * 1000 ms, in steps of the clock.
TtlTicks == 2

\* A route whose every settled request schedules an eviction.
TimersAfterAlways(t, id, outcome) == [t EXCEPT ![id] = Append(@, TtlTicks)]

\* A route that schedules no eviction.
TimersAfterNever(t, id, outcome) == t

\* The eviction timers after ytdl.getInfo settled: setTimeout follows cache.set in the try block.
TimersAfter(t, id, outcome) == IF outcome = Null THEN t ELSE [t EXCEPT ![id] = Append(@, TtlTicks)]

\* The cache after ytdl.getInfo settled: cache.set(videoId, mediaInfo) in the try block.
CacheAfter(m, id, outcome) == IF outcome = Null THEN m ELSE MapSet(m, id, ServerMediaInfo(outcome))

\* The route after its await: ytdl.getInfo of request n settles.
GetInfoSettles(n, outcome) ==
    /\ \E p \in pending : p.n = n
    /\ LET p == CHOOSE q \in pending : q.n = n
           id == GetVideoID(p.url)
       IN /\ pending' = pending \ {p}
          /\ cache' = CacheAfter(cache, id, outcome)
          /\ timers' = TimersAfter(timers, id, outcome)
          /\ entryAge' = IF outcome = Null THEN entryAge ELSE [entryAge EXCEPT ![id] = 0]
          /\ reply' = IF outcome = Null
                      THEN Reply(n, p.url, 500, UnavailableBody, FALSE)
                      ELSE Reply(n, p.url, 200, ServerMediaInfo(outcome), FALSE)
    /\ UNCHANGED <<received, getInfoCalls, uiVars, selectedQuality, touched, variant, url, isLoading,
                   error, mediaInfo, aiSummary, pc, mi, apiUrl, reqUrl, fetchCalls, requests,
                   resolverErr, extracted>>

\* An eviction timer of id fires: cache.delete(videoId).
TimerFires(id) ==
    /\ timers[id] # <<>>
    /\ Head(timers[id]) = 0
    /\ timers' = [timers EXCEPT ![id] = Tail(@)]
    /\ cache' = MapDelete(cache, id)
    /\ entryAge' = [entryAge EXCEPT ![id] = 0]
    /\ UNCHANGED <<pending, received, getInfoCalls, reply, uiVars, selectedQuality, touched, variant,
                   url, isLoading, error, mediaInfo, aiSummary, pc, mi, apiUrl, reqUrl,
                   fetchCalls, requests, resolverErr, extracted>>

\* Time passes by one step of the clock; a timer whose delay has passed fires first.  The
\* age of an entry is counted up to one step past the delay.
Tick ==
    /\ \A id \in VideoIds : \A i \in 1..Len(timers[id]) : timers[id][i] > 0
    /\ \/ \E id \in VideoIds : timers[id] # <<>>
       \/ \E id \in VideoIds : MapHas(cache, id) /\ entryAge[id] <= TtlTicks
    /\ timers' = [id \in VideoIds |-> [i \in 1..Len(timers[id]) |-> timers[id][i] - 1]]
    /\ entryAge' = [id \in VideoIds |->
                        IF MapHas(cache, id) /\ entryAge[id] <= TtlTicks
                        THEN entryAge[id] + 1 ELSE entryAge[id]]
    /\ UNCHANGED <<cache, pending, received, getInfoCalls, reply, uiVars, selectedQuality, touched,
                   variant, url, isLoading, error, mediaInfo, aiSummary, pc, mi, apiUrl, reqUrl,
                   fetchCalls, requests, resolverErr, extracted>>

ServerNext ==
    \/ \E u \in ServerUrls : ServerRequest(u)
    \/ \E n \in 1..MaxRequests, outcome \in GetInfoOutcomes : GetInfoSettles(n, outcome)
    \/ \E id \in VideoIds : TimerFires(id)
    \/ Tick

\* The backend next to the draft that calls it.
ServerInit == Init /\ variant = "Backend"

ServerSpec == ServerInit /\ [][ServerNext]_vars

\* Time passes, and a timer set with setTimeout fires once its delay has passed.
ServerLiveSpec == ServerSpec /\ WF_vars(Tick) /\ WF_vars(\E id \in VideoIds : TimerFires(id))

\* The App with its preview and history: the Mirrors and Backend drafts resolving one
\* YouTube link against mirrors that answer with one of three sample documents and a
\* local backend that answers 2xx.
UiResponses == {[data |-> d, kind |-> "ok"] : d \in {DocRich, DocPlain, DocEmpty}}

MaxOptions == 7

UiInit == Init /\ variant \in {"Mirrors", "Backend"}

UiNext ==
    \/ SetUrl(UrlWatch)
    \/ HandleFetch
    \/ \E s \in Summaries : SummaryDone(s)
    \/ \E resp \in UiResponses : MirrorsAttempt(resp)
    \/ \E i \in YtdlInfos : BackendFetch([info |-> i, kind |-> "served"])
    \/ \E i \in 1..MaxOptions : SelectQuality(i)
    \/ HandleDownloadClick
    \/ HandleClearHistory

UiSpec == UiInit /\ [][UiNext]_vars

(***************************************************************************)
(* Properties.                                                             *)
(***************************************************************************)
\* The mirror list the draft's YouTube loop iterates.
MirrorList ==
    CASE variant = "Mirrors" -> INV_MIRRORS
      [] variant = "Probe" -> INV_MIRRORS_Probe
      [] variant = "Backend" -> invidiousInstancesFallback
      [] variant = "Vercel" -> invidiousInstances

\* The last handleFetch went to the YouTube resolver.
YouTubeRun == reqUrl # NoVal /\ getPlatform(reqUrl) = "YouTube"

IsMirror(to) == \E i \in 1..Len(MirrorList) : MirrorList[i] = to

MatchesNone(u) == \A i \in 1..Len(PlatformOrder) : ~RegexTest(PlatformOrder[i], u)

\* C1 as stated: whenever the last handleFetch ran on an input that matches no platform
\* pattern, it ended in the unsupported-platform error with fetchMediaInfo never invoked
\* and no network request made.
C1_UnsupportedForEveryInput ==
    (reqUrl # NoVal /\ MatchesNone(reqUrl)) =>
        /\ pc = "idle"
        /\ error = UnsupportedMsg
        /\ fetchCalls = 0
        /\ requests = <<>>

\* C1 amended: for an input that matches no platform pattern, handleFetch ends at once with
\* fetchMediaInfo never invoked and no network request made; the error is the
\* unsupported-platform error when the input is non-empty and 'Please enter a URL.' when it
\* is the empty string.
C1_NoFetchWhenNoPlatform ==
    (reqUrl # NoVal /\ MatchesNone(reqUrl)) =>
        /\ pc = "idle"
        /\ ~isLoading
        /\ fetchCalls = 0
        /\ requests = <<>>
        /\ error = (IF reqUrl = "" THEN "Please enter a URL." ELSE UnsupportedMsg)

C1_Witness ==
    /\ reqUrl = UrlExample
    /\ pc = "idle"
    /\ error = UnsupportedMsg
    /\ fetchCalls = 0

\* C2: every resolved MediaInfo has at least one download option.
C2_OptionsNeverEmpty ==
    mediaInfo # Null => Len(mediaInfo.downloadOptions) > 0

Known(quality) == IndexOf(qualityOrder, quality) # -1

UnknownOf(options) == SelectSeq(options, LAMBDA o : ~Known(o.quality))

\* C3: in the Invidious resolvers' result the options are ordered by the rank table, every
\* option with a label of the table before every option with another label, and the
\* options with other labels in their upstream order.
C3_RankedKnownFirst ==
    (variant \in {"Mirrors", "Probe"} /\ mediaInfo # Null /\ mediaInfo.platform = "YouTube") =>
        LET o == mediaInfo.downloadOptions
        IN /\ \A i, j \in 1..Len(o) :
                i < j => /\ ~(~Known(o[i].quality) /\ Known(o[j].quality))
                         /\ (Known(o[i].quality) /\ Known(o[j].quality)) =>
                                IndexOf(qualityOrder, o[i].quality) <= IndexOf(qualityOrder, o[j].quality)
           /\ UnknownOf(o) = UnknownOf(extracted)

\* The handleFetch that just resolved went through a deduplicating producer: the
\* serverless handler, or the ytdl backend answering the Backend draft directly.
Deduplicated ==
    /\ pc = "summary"
    /\ YouTubeRun
    /\ \/ variant = "Vercel"
       \/ variant = "Backend" /\ Len(requests) = 1

\* C4: of the extracted options sharing a quality label the result holds the one extracted first.
C4_DedupKeepsFirst ==
    Deduplicated =>
        \A i \in 1..Len(mediaInfo.downloadOptions) :
            LET o == mediaInfo.downloadOptions[i]
                same == {j \in 1..Len(extracted) : extracted[j].quality = o.quality}
            IN same # {} => o = extracted[CHOOSE j \in same : \A k \in same : j <= k]

\* Of the requests made, exactly those to the k-th mirror were answered 2xx with a document,
\* and every other one failed (rejected or non-2xx).
OnlyKthResponds(k) ==
    /\ \E i \in 1..Len(requests) : requests[i].to = MirrorList[k]
    /\ \A i \in 1..Len(requests) :
          IF requests[i].to = MirrorList[k]
          THEN requests[i].kind = "ok" /\ (requests[i].method = "GET" => requests[i].data # Null)
          ELSE requests[i].kind \in FailKinds

\* The document the k-th mirror answered with.
DocumentOf(k) ==
    requests[CHOOSE i \in 1..Len(requests) :
                requests[i].to = MirrorList[k] /\ requests[i].method = "GET"].data

StreamUrls(data) ==
    {data.formatStreams[i].url : i \in 1..Len(data.formatStreams)}
    \cup {data.adaptiveFormats[i].url : i \in 1..Len(data.adaptiveFormats)}

\* The requests issued by the mirror loop itself: every request of the Mirrors draft, the
\* HEAD probes of getInvidiousUrl in the Probe draft (which then sends one GET to the
\* endpoint the loop selected).
LoopRequests ==
    SelectSeq(requests, LAMBDA r : variant = "Probe" => r.method = "HEAD")

AllMirrorsFailedMsg ==
    CASE variant = "Mirrors" -> "All YouTube mirrors failed. Try again later."
      [] variant = "Probe" -> "All Invidious mirrors are down"
      [] variant = "Backend" -> "The local service is down and all public YouTube APIs failed. Please try again later."
      [] OTHER -> NoVal

\* C6: when the resolver has ended and every request of its mirror loop failed (rejected,
\* timed out or non-2xx), the loop made one request to each endpoint, in list order, and
\* the resolver threw the all-mirrors-failed error.
C6_AllFailMeansAllTried ==
    (/\ variant \in {"Mirrors", "Probe"}
     /\ YouTubeRun
     /\ pc = "idle"
     /\ requests # <<>>
     /\ \A i \in 1..Len(requests) : requests[i].kind \in FailKinds) =>
        /\ Len(requests) = Len(MirrorList)
        /\ \A i \in 1..Len(requests) : requests[i].to = MirrorList[i]
        /\ resolverErr = AllMirrorsFailedMsg

C6_Witness ==
    /\ variant = "Probe"
    /\ pc = "idle"
    /\ Len(requests) = Len(INV_MIRRORS_Probe)
    /\ requests[1].kind = "throw"
    /\ requests[2].kind = "status"
    /\ \A i \in 1..Len(requests) : requests[i].kind \in FailKinds
    /\ resolverErr = "All Invidious mirrors are down"

\* C7: the all-mirrors-failed error is thrown only when every endpoint of the list was contacted.
C7_ExhaustionOnlyAfterAll ==
    (resolverErr # NoVal /\ resolverErr = AllMirrorsFailedMsg) =>
        \A k \in 1..Len(MirrorList) : \E i \in 1..Len(requests) : requests[i].to = MirrorList[k]

\* C8: a resolution does not end in failure right after a rejected or non-2xx request to a
\* mirror while some endpoint of the list is still untried.
C8_MirrorFailureTriesNext ==
    (/\ variant \in {"Mirrors", "Probe", "Backend"}
     /\ pc = "idle"
     /\ resolverErr # NoVal
     /\ requests # <<>>
     /\ IsMirror(requests[Len(requests)].to)
     /\ requests[Len(requests)].kind \in FailKinds) =>
        \A k \in 1..Len(MirrorList) : \E i \in 1..Len(requests) : requests[i].to = MirrorList[k]

\* A mirror's answer that yields a usable stream for the serverless handler.
UsableAnswer(r) ==
    /\ IsMirror(r.to)
    /\ r.kind = "ok"
    /\ r.data # Null
    /\ Len(HandlerExtract(r.data)) > 0

\* C9: the serverless YouTube resolution succeeds only if some mirror answered with a usable
\* stream; otherwise it is reported as a failure.
C9_FailureNotMaskedAsSuccess ==
    (variant = "Vercel" /\ YouTubeRun /\ pc = "summary") =>
        \E i \in 1..Len(requests) : UsableAnswer(requests[i])

\* C10: the message fetchMediaInfo fails with is the message the resolver failed with.
C10_FacadeKeepsCause ==
    resolverErr # NoVal => error = resolverErr

\* The 2xx bodies that carry no usable media entry.
EmptyBodies == {TwText, TwPoll, FbNone, PinNone}

\* What fetchMediaInfo fails with when the resolver's request is rejected, answered
\* non-2xx, or cut by its timeout.
TransportErrors(v, name) ==
    {fetchMediaInfoCatch(v, name, ApiResult(v, name, [data |-> Null, kind |-> k]).msg) :
        k \in {"throw", "status"} \cup (IF Deadline(v, "apiFetch", name) > 0 THEN {"hang"} ELSE {})}

\* C11: a resolution whose resolver received a 2xx body with no usable media entry has
\* failed (no MediaInfo is set), and the error shown differs from every error the same
\* resolver surfaces for a transport failure.
C11_NoMediaDistinctFromTransport ==
    (/\ pc \in {"idle", "summary"}
     /\ requests # <<>>
     /\ requests[Len(requests)].kind = "ok"
     /\ requests[Len(requests)].data \in EmptyBodies) =>
        /\ mediaInfo = Null
        /\ error # NoVal
        /\ error \notin TransportErrors(variant, getPlatform(reqUrl))

\* C12: no resolution is left waiting forever on a network call: handleFetch is never
\* suspended on a fetch that carries no timeout while its upstream never answers.
C12_NoCallWaitsForever ==
    pc # "hung"

\* After the i-th attempt of the Mirrors loop the next mirror has been asked: its request
\* is logged, or is the one in flight.
NextMirrorTried(i) ==
    IF Len(requests) > i
    THEN requests[i + 1].to = INV_MIRRORS[i + 1]
    ELSE pc = "mirrorsLoop" /\ mi = i + 1

\* C13: in the Mirrors loop an attempt on a mirror that never answers is abandoned at its
\* timeout and the next mirror of the list is tried, and no attempt stays in flight forever.
C13_HangingMirrorYields ==
    /\ []((variant = "Mirrors" /\ YouTubeRun) =>
            \A i \in 1..Len(requests) :
                (requests[i].kind = "hang" /\ i < Len(INV_MIRRORS)) => NextMirrorTried(i))
    /\ \A i \in 1..Len(INV_MIRRORS) :
            (variant = "Mirrors" /\ pc = "mirrorsLoop" /\ mi = i) ~> (pc # "mirrorsLoop" \/ mi > i)

C13_Witness ==
    /\ variant = "Mirrors"
    /\ pc = "mirrorsLoop"
    /\ Len(requests) = 2
    /\ requests[1].kind = "status"
    /\ requests[2].kind = "hang"
    /\ mi = 3

\* C14: within one YouTube resolution the i-th request goes to the i-th endpoint of the
\* mirror list: the endpoints are asked in list order, none is skipped and none is asked twice.
C14_OneRequestPerMirrorInOrder ==
    (variant \in {"Mirrors", "Probe"} /\ YouTubeRun) =>
        \A i \in 1..Len(requests) :
            /\ i <= Len(MirrorList)
            /\ requests[i].to = MirrorList[i]

\* The platforms a draft declares without a working upstream.
Unavailable(v, name) ==
    \/ name = "LinkedIn"
    \/ v = "Vercel" /\ name \in {"Facebook", "Pinterest"}
    \/ v = "Probe" /\ name \in {"Instagram", "Facebook", "Pinterest"}

\* C15: a handleFetch on a link of a platform declared unavailable ends at once, without a
\* network request and without a MediaInfo, in an error that depends on the draft and the
\* platform alone.
C15_UnavailableFailsWithoutRequest ==
    (reqUrl # NoVal /\ Unavailable(variant, getPlatform(reqUrl))) =>
        /\ pc = "idle"
        /\ ~isLoading
        /\ fetchCalls = 1
        /\ requests = <<>>
        /\ mediaInfo = Null
        /\ error # NoVal
        /\ error = UnsupportedThrow(variant, getPlatform(reqUrl))

C15_Witness ==
    /\ variant = "Vercel"
    /\ reqUrl = UrlPinterest
    /\ pc = "idle"
    /\ fetchCalls = 1
    /\ requests = <<>>
    /\ error = "Pinterest downloads are currently unavailable."

\* The links that carry an 11-character video id.
HasVideoId(u) == u \in {UrlWatch, UrlShort, UrlShorts}

\* C16: a link classified as YouTube that carries no 11-character video id reaches no mirror in
\* any draft, and the resolvers that extract the id themselves end at once in the failure
\* "Invalid YouTube URL" with an empty request log and no MediaInfo.
C16_NoVideoIdContactsNoMirror ==
    (YouTubeRun /\ ~HasVideoId(reqUrl)) =>
        /\ \A i \in 1..Len(requests) :
               \A k \in 1..Len(MirrorList) : requests[i].to # MirrorList[k]
        /\ variant \in {"Mirrors", "Probe"} =>
               /\ pc = "idle"
               /\ requests = <<>>
               /\ mediaInfo = Null
               /\ resolverErr = "Invalid YouTube URL"

C16_Witness ==
    /\ variant = "Mirrors"
    /\ reqUrl = UrlMulti
    /\ getPlatform(reqUrl) = "YouTube"
    /\ pc = "idle"
    /\ fetchCalls = 1
    /\ requests = <<>>
    /\ resolverErr = "Invalid YouTube URL"
    /\ error = "Invalid YouTube URL"

\* The positions of the platform table whose pattern matches the link.
Matching(u) == {k \in 1..Len(PlatformOrder) : RegexTest(PlatformOrder[k], u)}

\* C17: the table is ordered YouTube, TikTok, Instagram, Twitter, Facebook, LinkedIn, Pinterest;
\* the platform detected for the submitted link is the matching entry with the smallest
\* position, also when several entries match, and null exactly when no entry matches; the
\* resolution that follows is the one of that platform.
C17_FirstMatchInTableOrder ==
    /\ PlatformOrder = <<"YouTube", "TikTok", "Instagram", "Twitter", "Facebook", "LinkedIn", "Pinterest">>
    /\ (reqUrl # NoVal /\ reqUrl # "") =>
           LET p == getPlatform(reqUrl)
           IN /\ (p = NoVal) <=> (Matching(reqUrl) = {})
              /\ p # NoVal =>
                     \E k \in Matching(reqUrl) :
                         /\ PlatformOrder[k] = p
                         /\ \A j \in Matching(reqUrl) : k <= j
              /\ p = NoVal => (fetchCalls = 0 /\ error = UnsupportedMsg /\ requests = <<>>)
              /\ mediaInfo # Null => mediaInfo.platform = p
              /\ pc = "apiFetch" => p # "YouTube"
              /\ pc \in {"mirrorsLoop", "probeHead", "backendFetch", "vercelFetch"} => p = "YouTube"

C17_Witness ==
    /\ reqUrl = UrlMulti
    /\ Cardinality(Matching(reqUrl)) = 2
    /\ getPlatform(reqUrl) = "YouTube"
    /\ variant = "Backend"
    /\ pc = "backendFetch"
    /\ fetchCalls = 1

\* The document the settled YouTube resolution was built from: the body of the last request.
SourceDoc == requests[Len(requests)].data

\* The audio streams of the source document in upstream order, each as its url and its
\* bitrate (0 when the upstream gave none); empty where the draft's path adds no audio option.
AudioCandidates ==
    CASE variant = "Mirrors" ->
            LET streams == SourceDoc.formatStreams \o SourceDoc.adaptiveFormats
                audio == KeepIndices(streams, IndicesWhere(streams, LAMBDA s : TypeIncludes(s.type, "audio")))
            IN [i \in 1..Len(audio) |-> [url |-> audio[i].url, rate |-> audio[i].bitrate]]
      [] variant \in {"Probe", "Vercel"} ->
            LET streams == SourceDoc.adaptiveFormats
                audio == KeepIndices(streams, IndicesWhere(streams, LAMBDA s : TypeIncludes(s.type, "audio")))
            IN [i \in 1..Len(audio) |-> [url |-> audio[i].url, rate |-> audio[i].bitrate]]
      [] variant = "Backend" /\ Len(requests) = 1 ->
            LET audio == FilterFormats(SourceDoc.formats, "audioonly")
            IN [i \in 1..Len(audio) |-> [url |-> audio[i].url, rate |-> audio[i].audioBitrate]]
      [] OTHER -> <<>>

AudioOptions(options) ==
    {i \in 1..Len(options) : options[i].quality \in {"audio", "audio only"}}

\* A YouTube resolution that produced its MediaInfo from a stream document.
BuiltFromDoc ==
    /\ YouTubeRun
    /\ mediaInfo # Null
    /\ Len(requests) > 0
    /\ SourceDoc # Null
    /\ variant = "Vercel" => HandlerAccepts(SourceDoc)

\* C18: when the source document lists audio streams, the MediaInfo carries exactly one audio
\* option, and its url is the url of the first listed stream among those with the highest
\* bitrate, a missing bitrate counting as 0.
C18_BestAudioIsFirstHighestBitrate ==
    (BuiltFromDoc /\ Len(AudioCandidates) > 0) =>
        LET c == AudioCandidates
            best == CHOOSE k \in 1..Len(c) :
                        /\ \A j \in 1..Len(c) : c[j].rate <= c[k].rate
                        /\ \A j \in 1..(k - 1) : c[j].rate < c[k].rate
            opts == mediaInfo.downloadOptions
        IN /\ Cardinality(AudioOptions(opts)) = 1
           /\ \A i \in AudioOptions(opts) : opts[i].url = c[best].url

C18_Witness ==
    /\ BuiltFromDoc
    /\ variant = "Mirrors"
    /\ SourceDoc = DocRich
    /\ Len(AudioCandidates) = 3
    /\ AudioCandidates[2].rate = AudioCandidates[3].rate
    /\ \E i \in AudioOptions(mediaInfo.downloadOptions) :
           mediaInfo.downloadOptions[i].url = Audio160.url

\* C19: the duration of a MediaInfo is never a zero duration; a live or unknown length shows
\* as a sentinel such as "LIVE" or "N/A".
C19_DurationNeverZero ==
    mediaInfo # Null => mediaInfo.duration \notin {"00:00", "00:00:00"}

\* The deduplicate-then-rank step of the draft that served the resolution.
Normalize(options) ==
    IF variant = "Vercel" THEN HandlerSort(UniqueOptions(options))
    ELSE ServerSort(UniqueOptions(options))

\* The raw lists derived from the extracted one: its contiguous ranges, forwards and backwards.
RawLists ==
    LET n == Len(extracted)
        ranges == {SubSeq(extracted, a, b) : a \in 1..n, b \in 1..n}
        backwards(r) == [k \in 1..Len(r) |-> r[Len(r) + 1 - k]]
    IN ranges \cup {backwards(r) : r \in ranges}

\* C20: deduplicating and ranking the output of the deduplicate-then-rank step gives that
\* output again, for the extracted option list and for every list derived from it; the
\* options of the MediaInfo are that output.
C20_NormalizeIdempotent ==
    Deduplicated =>
        /\ \A raw \in RawLists : Normalize(Normalize(raw)) = Normalize(raw)
        /\ Len(extracted) > 0 => mediaInfo.downloadOptions = Normalize(extracted)

C20_Witness ==
    /\ Deduplicated
    /\ variant = "Vercel"
    /\ \E i, j \in 1..Len(extracted) : i < j /\ extracted[i].quality = extracted[j].quality
    /\ Len(Normalize(extracted)) < Len(extracted)
    /\ Normalize(extracted) # UniqueOptions(extracted)
    /\ mediaInfo.downloadOptions = Normalize(extracted)

\* C23: whenever no handleFetch is running, isLoading is false: every completed handleFetch,
\* whether it ended in a MediaInfo, in the detector's miss or in a resolver failure, has
\* cleared the flag that disables the form.
C23_LoadingClearedOnCompletion ==
    pc = "idle" => ~isLoading

C23_Witness ==
    /\ pc = "idle"
    /\ reqUrl # NoVal
    /\ fetchCalls = 1
    /\ Len(requests) > 0
    /\ resolverErr # NoVal
    /\ error # NoVal
    /\ mediaInfo = Null
    /\ ~isLoading

\* The byte counts the upstream documents of the model report, and b / 1048576 rounded to
\* one decimal for each of them.
ByteCounts == {1, 1048576, 3145728, 5242880, 7864320}
OneDecimalMB(b) ==
    CASE b = 1 -> "0.0 MB"
      [] b = 1048576 -> "1.0 MB"
      [] b = 3145728 -> "3.0 MB"
      [] b = 5242880 -> "5.0 MB"
      [] b = 7864320 -> "7.5 MB"

\* C25: every size shown by an option of a MediaInfo is the one-decimal megabyte rendering
\* of a byte count the upstream reported; 5,242,880 bytes render as "5.0 MB".
C25_SizeHasOneDecimal ==
    mediaInfo # Null =>
        \A i \in 1..Len(mediaInfo.downloadOptions) :
            mediaInfo.downloadOptions[i].size # NoVal =>
                \E b \in ByteCounts : mediaInfo.downloadOptions[i].size = OneDecimalMB(b)

\* The two link forms of the same video: the long host and the short host.
BothHostForms == {"https://www.youtube.com/watch?v=abc12345678", "https://youtu.be/abc12345678"}

\* C26: for the watch link and for the youtu.be link of video abc12345678 the detector
\* answers YouTube, every id extraction yields abc12345678, and the resolution goes on to
\* the network instead of ending in the invalid-URL failure.
C26_BothHostFormsResolve ==
    (reqUrl # NoVal /\ reqUrl \in BothHostForms) =>
        /\ getPlatform(reqUrl) = "YouTube"
        /\ MirrorsVideoId(reqUrl) = "abc12345678"
        /\ ProbeVideoId(reqUrl) = "abc12345678"
        /\ SlashVideoId(reqUrl) = "abc12345678"
        /\ fetchCalls = 1
        /\ resolverErr \notin {"Invalid YouTube URL", "Invalid YouTube URL for fallback API"}
        /\ pc = "idle" => Len(requests) > 0

C26_Witness ==
    /\ variant = "Mirrors"
    /\ reqUrl = "https://youtu.be/abc12345678"
    /\ getPlatform(reqUrl) = "YouTube"
    /\ Len(requests) = 1
    /\ requests[1].to = INV_MIRRORS[1]
    /\ mediaInfo # Null

\* The ways the request to the local backend fails below HTTP: the connection fails or the
\* 3000 ms deadline passes.
NetworkLevel == {"failedToFetch", "networkError", "timeout"}

\* C27: in the Backend draft a request goes to a public Invidious instance only after the
\* request to the local backend failed below HTTP; when the backend answered with a non-2xx
\* status the resolution ends after that one request with the backend's message.
C27_FallbackOnlyOnNetworkFailure ==
    (variant = "Backend" /\ YouTubeRun /\ Len(requests) > 0) =>
        /\ requests[1].to = BackendUrl
        /\ (Len(requests) > 1 \/ pc = "fallbackLoop") => requests[1].kind \in NetworkLevel
        /\ (requests[1].kind = "served" /\ (~ValidateURL(reqUrl) \/ requests[1].data = Null)) =>
               /\ Len(requests) = 1
               /\ pc = "idle"
               /\ mediaInfo = Null
               /\ resolverErr = (IF ~ValidateURL(reqUrl) THEN "Invalid YouTube link"
                                 ELSE "This content might be private, age-restricted, or otherwise unavailable.")
               /\ error = resolverErr

C27_Witness ==
    /\ variant = "Backend"
    /\ reqUrl = UrlChannel
    /\ getPlatform(reqUrl) = "YouTube"
    /\ Len(requests) = 1
    /\ requests[1].kind = "served"
    /\ pc = "idle"
    /\ error = "Invalid YouTube link"

\* The last handleFetch went to a resolver that builds its result inside an endpoint loop:
\* fetchYouTubeInfoFromInvidious of the Backend draft, fetchInstagramInfo of the Vercel draft.
BuildsInLoop ==
    /\ reqUrl # NoVal
    /\ \/ variant = "Backend" /\ getPlatform(reqUrl) = "YouTube"
       \/ variant = "Vercel" /\ getPlatform(reqUrl) = "Instagram"

LoopEndpoints == IF variant = "Backend" THEN invidiousInstancesFallback ELSE InstagramApis

\* The requests of that loop (the Backend draft's first request goes to the local backend).
BuiltLoopRequests == IF variant = "Backend" /\ requests # <<>> THEN Tail(requests) ELSE requests

\* The option urls a response offers: a 2xx body with at least one of them is usable.
UsableUrls(r) ==
    IF r.kind # "ok" \/ r.data = Null THEN {}
    ELSE IF variant = "Backend"
         THEN {r.data.formatStreams[i].url : i \in {j \in 1..Len(r.data.formatStreams) :
                    /\ r.data.formatStreams[j].url # NoVal
                    /\ r.data.formatStreams[j].qualityLabel # NoVal}}
         ELSE IF r.data.data = Null THEN {}
              ELSE IF r.data.data.isArray
                   THEN {r.data.data.items[i].url : i \in 1..Len(r.data.data.items)} \ {NoVal}
                   ELSE {r.data.data.url} \ {NoVal}

\* C30: a resolver that builds its result inside the endpoint loop contacts the endpoints in
\* list order, goes past an endpoint only when its response offers no usable option, returns
\* the MediaInfo built from the first usable response, and throws only after every endpoint
\* was contacted without a usable response.
C30_FirstUsableEndpointWins ==
    BuildsInLoop =>
        LET lr == BuiltLoopRequests
        IN /\ \A i \in 1..Len(lr) : lr[i].to = LoopEndpoints[i]
           /\ \A i \in 1..(Len(lr) - 1) : UsableUrls(lr[i]) = {}
           /\ (lr # <<>> /\ mediaInfo # Null) =>
                  /\ UsableUrls(lr[Len(lr)]) # {}
                  /\ {mediaInfo.downloadOptions[i].url : i \in 1..Len(mediaInfo.downloadOptions)}
                        = UsableUrls(lr[Len(lr)])
           /\ (lr # <<>> /\ resolverErr # NoVal) =>
                  /\ Len(lr) = Len(LoopEndpoints)
                  /\ UsableUrls(lr[Len(lr)]) = {}

\* C22: the history never holds more than 5 items and holds them most-recent-first without
\* a gap: its i-th item is the i-th most recent download, so each download has put its item
\* at the head and kept the most recent previous items, at most 4, in their order.
C22_HistoryCappedMostRecentFirst ==
    /\ Len(history) <= 5
    /\ \A i \in 1..Len(history) : history[i].seq = downloads + 1 - i

C22_Witness ==
    /\ Len(history) = 5
    /\ downloads = 6
    /\ history[1].seq = 6
    /\ history[5].seq = 2

\* C24: a mounted preview whose selection the user has not changed selects
\* downloadOptions[0], and a Download click made in that state passed downloadOptions[0] of
\* the MediaInfo on show to onDownload.
C24_DefaultIsFirstOption ==
    /\ (mediaInfo # Null /\ ~PreviewCrashed /\ ~touched) =>
           /\ selectedQuality = mediaInfo.downloadOptions[1].quality
           /\ FindByQuality(mediaInfo.downloadOptions, selectedQuality) = 1
    /\ (downloaded # Null /\ ~downloaded.touched) =>
           downloaded.option = downloaded.info.downloadOptions[1]

C24_Witness ==
    /\ downloaded # Null
    /\ ~downloaded.touched
    /\ Len(downloaded.info.downloadOptions) > 1
    /\ downloaded.option = downloaded.info.downloadOptions[1]
    /\ downloaded.option # downloaded.info.downloadOptions[Len(downloaded.info.downloadOptions)]

\* The cache holds at most one entry per video id.
OneEntryPerId ==
    \A i, j \in 1..Len(cache) : cache[i].key = cache[j].key => i = j

\* C21: the cache holds at most one entry per video id at all times, every entry stored is
\* evicted later, and once requests have stopped the cache becomes and stays empty.
C21_EveryEntryEvicted ==
    /\ []OneEntryPerId
    /\ \A id \in VideoIds : (MapHas(cache, id) ~> ~MapHas(cache, id))
    /\ <>[](cache = <<>>)

C21_Witness ==
    /\ cache = <<>>
    /\ \A id \in VideoIds : timers[id] = <<>>
    /\ received = MaxRequests
    /\ pending = {}
    /\ reply # Null
    /\ reply.status = 200
    /\ reply.hit

\* The entry the cache holds for the video of url u, Null when it holds none.
StoredFor(m, u) ==
    IF \E i \in 1..Len(m) : m[i].key = GetVideoID(u)
    THEN m[CHOOSE i \in 1..Len(m) : m[i].key = GetVideoID(u)].value
    ELSE Null

\* The step is the arrival of a request for url u.
Arrives(u) ==
    /\ received' = received + 1
    /\ (reply' # reply) => (reply'.url = u)
    /\ (pending' # pending) => (\E p \in pending' \ pending : p.url = u)

\* C28: a request whose video is in the cache is answered in the same step with the stored
\* record, 200, without a ytdl.getInfo call and without a change of the cache; a valid
\* request whose video is not in the cache makes exactly one ytdl.getInfo call; no other
\* step makes one; and a call that succeeds leaves in the cache, under the video's id, the
\* record it answers with.
C28_HitServesStoredMissCallsOnce ==
    [][
        /\ \A u \in ServerUrls \ {NoVal} :
            (Arrives(u) /\ ValidateURL(u)) =>
                IF StoredFor(cache, u) # Null
                THEN /\ reply'.n = received'
                     /\ reply'.status = 200
                     /\ reply'.body = StoredFor(cache, u)
                     /\ getInfoCalls' = getInfoCalls
                     /\ pending' = pending
                     /\ cache' = cache
                ELSE /\ getInfoCalls' = getInfoCalls + 1
                     /\ Cardinality(pending') = Cardinality(pending) + 1
                     /\ reply' = reply
        /\ (received' = received) => (getInfoCalls' = getInfoCalls)
        /\ (received' = received /\ reply' # reply /\ reply'.status = 200) =>
                /\ ~reply'.hit
                /\ StoredFor(cache', reply'.url) = reply'.body
                /\ Cardinality(pending') = Cardinality(pending) - 1
      ]_vars

\* A hit on the short link answered with the record stored for the watch link.
C28_Witness ==
    /\ reply # Null
    /\ reply.hit
    /\ reply.status = 200
    /\ reply.url = UrlShort
    /\ reply.body = StoredFor(cache, UrlWatch)
    /\ getInfoCalls = 1
    /\ received = 2

\* C29: a request answered with 400 or 500 leaves the cache as it was and schedules no
\* eviction timer, and the 400 is sent without a ytdl.getInfo call.
C29_FailureLeavesCacheAlone ==
    [][(reply' # reply /\ reply'.status \in {400, 500}) =>
            /\ cache' = cache
            /\ timers' = timers
            /\ (reply'.status = 400) =>
                   (/\ getInfoCalls' = getInfoCalls
                    /\ pending' = pending
                    /\ reply'.body = InvalidLinkBody)
            /\ (reply'.status = 500) => (reply'.body = UnavailableBody)
      ]_vars

\* A 500 sent while the cache holds an entry and a timer is pending.
C29_Witness ==
    /\ reply # Null
    /\ reply.status = 500
    /\ cache # <<>>
    /\ \E id \in VideoIds : timers[id] # <<>>

\* C37: an entry leaves the cache only when the full delay has passed since the store that
\* wrote it, so never by the timer of an earlier store of the same video id.
C37_EntryLivesFullTtl ==
    [][\A id \in VideoIds :
          (MapHas(cache, id) /\ ~MapHas(cache', id)) => entryAge[id] >= TtlTicks]_vars

C39_OneCallInFlightPerId ==
    \A p, q \in pending : GetVideoID(p.url) = GetVideoID(q.url) => p = q

\* The options of the record the backend last answered with.
AnsweredOptions ==
    IF reply # Null /\ reply.status = 200 THEN reply.body.downloadOptions ELSE <<>>

WithAudioLabel(q) == q \in QualityLabels
NoAudioLabel(q) == \E l \in QualityLabels : q = NoAudio(l)
NonNumericLabel(q) == ~WithAudioLabel(q) /\ ~NoAudioLabel(q)

\* C31: in every record the backend answers with, the options with audio come before the
\* "(no audio)" options, the resolutions do not increase within either group, and the
\* options whose label is no resolution come after all the others.
C31_BackendOrder ==
    LET o == AnsweredOptions
    IN \A i, j \in 1..Len(o) :
          /\ (WithAudioLabel(o[i].quality) /\ NoAudioLabel(o[j].quality)) => i < j
          /\ (i < j /\ WithAudioLabel(o[i].quality) /\ WithAudioLabel(o[j].quality)) =>
                 ParseInt(o[i].quality) >= ParseInt(o[j].quality)
          /\ (i < j /\ NoAudioLabel(o[i].quality) /\ NoAudioLabel(o[j].quality)) =>
                 ParseInt(o[i].quality) >= ParseInt(o[j].quality)
          /\ (NonNumericLabel(o[i].quality) /\ ~NonNumericLabel(o[j].quality)) => j < i

C31_Witness ==
    /\ Len(AnsweredOptions) = 4
    /\ AnsweredOptions[1].quality = "360p"
    /\ AnsweredOptions[2].quality = NoAudio("1080p")
    /\ AnsweredOptions[3].quality = "HD"
    /\ AnsweredOptions[4].quality = "audio only"

\* C32: the description of a resolved MediaInfo has at most 500 characters.
C32_DescriptionCapped ==
    mediaInfo # Null => mediaInfo.description <= 500

\* C33: every download option of a resolved MediaInfo carries a url: no resolver emits an
\* option whose upstream url field was absent.
C33_EveryOptionHasUrl ==
    mediaInfo # Null =>
        \A i \in 1..Len(mediaInfo.downloadOptions) : mediaInfo.downloadOptions[i].url # NoVal

\* C34: every option listed in the preview can be selected and handed to onDownload: for
\* each index i some entry of the quality select makes Download pass downloadOptions[i],
\* also when two options share a quality label.
C34_EveryOptionSelectable ==
    mediaInfo # Null =>
        \A i \in 1..Len(mediaInfo.downloadOptions) :
            \E j \in 1..Len(mediaInfo.downloadOptions) :
                FindByQuality(mediaInfo.downloadOptions, mediaInfo.downloadOptions[j].quality) = i

\* C35: in every UI state a summary is shown only together with a preview: a non-null
\* aiSummary implies a non-null mediaInfo, also when Download is clicked while the summary
\* request of the same handleFetch is in flight.
C35_SummaryOnlyWithPreview ==
    aiSummary # NoVal => mediaInfo # Null

\* C36: in every UI state error and mediaInfo are not both non-null: a resolution shows a
\* preview or an error message, never both.
C36_PreviewOrError ==
    ~(error # NoVal /\ mediaInfo # Null)

====
